---- MODULE Spec2Model ----
(***************************************************************************)
(* Model of the CO safety controller (co-system): the FSM engine           *)
(* (fsm/fsm.c), the sensor monitor (sensor_task/sensor.c), the cloud sync   *)
(* agent (communication/agent_task.c) with its ring buffer                  *)
(* (communication/ring_buffer.c), and the FSM unit test (test/test_fsm.c).  *)
(*                                                                         *)
(* Time is kept as elapsed milliseconds since a timer was started,          *)
(* advanced by Tick in steps of TICK_MS and saturating at the duration the  *)
(* code compares it with.  CO concentrations are integers in 1/100 ppm.     *)
(***************************************************************************)
EXTENDS Integers, Sequences, FiniteSets, TLC

\* ------------------------------------------------------------ bounds
\* Time advanced by one Tick step (ms).
TICK_MS == 500
\* Depth of fsmEventQueue in the model (QUEUE_SIZE_FSM_EVENT, 10 in config).
QUEUE_SIZE_FSM_EVENT == 2
\* Depth of telemetryQueue in the model (QUEUE_SIZE_TELEMETRY, 10 in config).
QUEUE_SIZE_TELEMETRY == 1
\* Depth of commandQueue in the model (QUEUE_SIZE_COMMAND, 10 in config).
QUEUE_SIZE_COMMAND == 1
\* Time advanced by one MainTick step (ms).
MAIN_TICK_MS == 2500
\* The count of ifttt_webhook_trigger() calls is kept modulo this number.
TriggerWrap == 3
\* Time advanced by one TestTick step (ms): no longer than twice the FSM's 50 ms
\* poll, so the FSM evaluates its timers between two steps.
TEST_TICK_MS == 100
\* Slots of the ring buffer in the model (RING_BUFFER_SIZE, 100 in ring_buffer.h).
RING_BUFFER_SIZE == 3
\* Records the producers send while the agent is observed.
MaxRecords == 3
\* Pushes made on the ring buffer while its interface is exercised: more than
\* RING_BUFFER_SIZE, so that the overwrite of the oldest record happens.
MaxPushes == 5
\* How far below zero count is followed once it has underflowed.
MaxUnderflow == 2
\* The step of the time a task spends blocked in xSemaphoreTake, and how far
\* that time is followed.
WAIT_TICK_MS == 50
MaxWaitMs == 150

\* ------------------------------------------------------------ program constants
INIT_DURATION_MS == 3000
DOOR_OPEN_DURATION_MS == 5000
CO_THRESHOLD_SENSOR_PPM == 100
ADC_FULL_SCALE == 4095
ADC_PPM_RANGE == 200

\* SystemState_t, in the order of state_names[] (main.c, stats.c)
STATE_INIT == "INIT"
STATE_NORMAL == "NORMAL"
STATE_OPEN == "OPEN"
STATE_EMERGENCY == "EMERGENCY"
SystemState_t == {STATE_INIT, STATE_NORMAL, STATE_OPEN, STATE_EMERGENCY}

\* EventType_t: the three types fsm.c dispatches on, and EVENT_CMD_TEST, a type
\* of the enumeration that no case of handle_event names.
EVENT_BUTTON_PRESS == "BUTTON_PRESS"
EVENT_CO_ALARM == "CO_ALARM"
EVENT_CMD_STOP_EMER == "CMD_STOP_EMER"
EVENT_CMD_TEST == "CMD_TEST"
\* EVENT_CMD_RESET: sent by test_fsm.c; no case of handle_event names it either.
EVENT_CMD_RESET == "CMD_RESET"

\* Raw ADC readings the environment presents to the sensor: just below and at
\* the first value whose calibrated reading reaches the sensor threshold.
AdcValues == {2047, 2048}

\* Events other producers than the sensor put on fsmEventQueue (test_fsm.c
\* sends BUTTON_PRESS and CO_ALARM(50.0); main.c sends CMD_STOP_EMER).
InjectedEvents ==
    { [type |-> EVENT_BUTTON_PRESS, co_ppm |-> 0],
      [type |-> EVENT_CO_ALARM, co_ppm |-> 5000],
      [type |-> EVENT_CMD_STOP_EMER, co_ppm |-> 0],
      [type |-> EVENT_CMD_TEST, co_ppm |-> 0] }

\* The value of fsm_task's local `event` before the first xQueueReceive succeeds.
NoEvent == [type |-> "NONE", co_ppm |-> 0]

VARIABLES
    \* fsm.c
    current_state,                \* static SystemState_t current_state
    emergency_webhook_triggered,  \* static bool emergency_webhook_triggered
    fsmEventQueue,                \* QueueHandle_t fsmEventQueue (contents)
    fsm_pc,                       \* position of fsm_task
    event,                        \* fsm_task local: the event last received
    fsm_ret,                      \* caller of the running apply_state_config
    apply_state,                  \* argument of the running apply_state_config
    init_timer_active,            \* fsm_task local
    door_timer_active,            \* fsm_task local
    init_elapsed,                 \* (xTaskGetTickCount() - init_start_time) in ms
    door_elapsed,                 \* (xTaskGetTickCount() - door_close_time) in ms
    \* actuators driven through gpio_set_level / door_set_angle / buzzer_set_active
    green_led, red_led, door_angle, buzzer_active,
    \* ifttt_webhook_trigger() calls so far, modulo TriggerWrap
    webhook_triggers,
    \* agent_task.c
    telemetryQueue,               \* QueueHandle_t telemetryQueue (contents)
    \* sensor.c
    adc_reading,                  \* what adc1_get_raw(ADC1_CHANNEL_6) returns now
    \* test_fsm.c
    test_pc,                      \* position of app_main: [test, step]
    test_elapsed,                 \* ms spent in the running vTaskDelay
    test_results,                 \* Unity's verdict on each RUN_TEST
    \* mqtt_handler.c
    mqtt_connected,               \* static bool mqtt_connected
    \* agent_task.c
    agent_pc,                     \* position of agent_task
    is_connected, was_connected,  \* agent_task locals
    published,                    \* records mqtt_publish_raw accepted, in order
    lost,                         \* records mqtt_publish_raw refused (dropped)
    taken_offline,                \* records taken off the channel with the link down
    publish_log,                  \* packets the last publish_telemetry call handed over
    next_stamp,                   \* esp_timer_get_time() / 1000 of the next record
    \* ring_buffer.c
    buffer, head, tail, count,
    buffer_mutex,                 \* holder of buffer_mutex: a task, or NoTask
    \* callers of the ring buffer interface
    ring_pc,                      \* position of each calling task in its call
    ring_ret,                     \* what each task's last push / pop call returned
    ring_out,                     \* timestamp of each task's Telemetry_t *item of pop
    current_count,                \* int current_count of the ring_buffer_count call that is running
    ring_pushed,                  \* records pushed since the last init / clear
    ring_popped,                  \* records handed out by pop since then
    \* protocol.c
    telemetry,                    \* const Telemetry_t *telemetry of the last encode
    status,                       \* const Status_t *status of the last encode
    packet_out,                   \* uint8_t *packet_out[0 .. *packet_len_out - 1]
    packet,                       \* the frame as it reaches protocol_verify_packet
    verify_ret,                   \* what protocol_verify_packet returned for it
    \* fsm.c and sensor.c, step by step
    state_mutex,                  \* holder of state_mutex: "sensor", "fsm" or NoTask
    sensor_pc,                    \* position of sensor_task in its loop
    sensor_adc,                   \* sensor_task local adc_reading
    sensor_state,                 \* sensor_task local state
    sensor_waited,                \* ms the sensor task has been blocked in its take
    set_pc,                       \* position of the FSM task in fsm_set_state
    \* mqtt_handler.c, main.c and door.c
    command_data,                 \* event->data of the MQTT_EVENT_DATA being handled
    commandQueue,                 \* QueueHandle_t commandQueue (contents)
    main_pc,                      \* position of app_main's loop
    main_elapsed,                 \* ms spent in the vTaskDelay of the CMD_TEST case
    door_sem,                     \* binary semaphore door_sem is given
    door_pc,                      \* position of door_task
    door_task_elapsed,            \* ms spent in door_task's vTaskDelay
    \* ifttt_webhook.c
    webhookQueue                  \* static QueueHandle_t webhookQueue (contents)

fsmVars == << current_state, emergency_webhook_triggered, fsm_pc, event, fsm_ret,
              apply_state, init_timer_active, door_timer_active >>
timerVars == << init_elapsed, door_elapsed >>
hwVars == << green_led, red_led, door_angle, buzzer_active >>
testVars == << test_pc, test_elapsed, test_results >>
ringVars == << buffer, head, tail, count >>
agentVars == << mqtt_connected, agent_pc, is_connected, was_connected, published,
                lost, taken_offline, publish_log, next_stamp, ringVars >>
ringApiVars == << ring_pushed, ring_popped >>
ringTaskVars == << buffer_mutex, ring_pc, ring_ret, ring_out, current_count >>
codecVars == << telemetry, status, packet_out, packet, verify_ret >>
lockVars == << state_mutex, sensor_pc, sensor_adc, sensor_state, sensor_waited,
              set_pc >>
mainVars == << command_data, commandQueue, main_pc, main_elapsed, door_sem, door_pc,
              door_task_elapsed >>
notifyVars == << webhookQueue >>
unitVars == << ringApiVars, ringTaskVars, codecVars, lockVars, mainVars, notifyVars >>
\* Everything but the ring buffer, the record clock and the ring buffer's callers.
systemVars == << fsmVars, timerVars, hwVars, fsmEventQueue, webhook_triggers,
                 telemetryQueue, adc_reading, testVars, mqtt_connected, agent_pc,
                 is_connected, was_connected, published, lost, taken_offline,
                 publish_log,
                 codecVars, lockVars, mainVars, notifyVars >>
\* Everything the encoders and the frame in transit leave alone.
codecFrame == << fsmVars, timerVars, hwVars, fsmEventQueue, webhook_triggers,
                 telemetryQueue, adc_reading, testVars, agentVars, ringApiVars,
                 ringTaskVars, lockVars, mainVars, notifyVars >>
\* Everything outside mqtt_handler.c's command path, app_main's loop and door.c.
systemFrame == << fsmVars, timerVars, hwVars, fsmEventQueue, webhook_triggers,
                 telemetryQueue, adc_reading, testVars, agentVars, ringApiVars,
                 ringTaskVars, codecVars, lockVars, notifyVars >>
vars == << fsmVars, timerVars, hwVars, fsmEventQueue, webhook_triggers,
           telemetryQueue, adc_reading, testVars, agentVars, unitVars >>

Min(a, b) == IF a < b THEN a ELSE b

\* ------------------------------------------------------------ FreeRTOS queue
\* Mutant: the item is put at the front (xQueueSendToFront).
xQueueSend_ToFront(q, item, depth) == IF Len(q) < depth THEN << item >> \o q ELSE q

\* xQueueSend(q, &item, 0): appends when there is room, otherwise fails at once
\* and the item is dropped.
xQueueSend(q, item, depth) == IF Len(q) < depth THEN Append(q, item) ELSE q

\* ------------------------------------------------------------ fsm.c
\* g_current_co_ppm: declared extern in fsm.c, written by no file of the source.
g_current_co_ppm == 0

\* Mutant: door_open is set in Open only.
Telemetry_DoorOpenOnlyInOpen(tag, co_ppm, state) ==
    [ timestamp |-> 0,
      co_ppm |-> co_ppm,
      alarm_active |-> (state = STATE_EMERGENCY),
      door_open |-> (state = STATE_OPEN),
      state |-> state,
      event |-> tag ]

\* send_telemetry_event (fsm.c 54-68) and sensor_task (sensor.c 52-63): the
\* record built from (event tag, co_ppm, state).
Telemetry(tag, co_ppm, state) ==
    [ timestamp |-> 0,
      co_ppm |-> co_ppm,
      alarm_active |-> (state = STATE_EMERGENCY),
      door_open |-> (state = STATE_OPEN \/ state = STATE_EMERGENCY),
      state |-> state,
      event |-> tag ]

\* Mutant: the OPEN case ignores EVENT_CO_ALARM.
NextState_AlarmIgnoredInOpen(prev, type) ==
    CASE prev = STATE_INIT ->
            IF type = EVENT_CO_ALARM THEN STATE_EMERGENCY ELSE prev
      [] prev = STATE_NORMAL ->
            IF type = EVENT_BUTTON_PRESS THEN STATE_OPEN
            ELSE IF type = EVENT_CO_ALARM THEN STATE_EMERGENCY
            ELSE prev
      [] prev = STATE_OPEN -> prev
      [] prev = STATE_EMERGENCY ->
            IF type = EVENT_CMD_STOP_EMER THEN STATE_NORMAL ELSE prev

\* Mutant: the EMERGENCY case handles EVENT_BUTTON_PRESS as the NORMAL case does.
NextState_ButtonInEmergency(prev, type) ==
    CASE prev = STATE_INIT ->
            IF type = EVENT_CO_ALARM THEN STATE_EMERGENCY ELSE prev
      [] prev = STATE_NORMAL ->
            IF type = EVENT_BUTTON_PRESS THEN STATE_OPEN
            ELSE IF type = EVENT_CO_ALARM THEN STATE_EMERGENCY
            ELSE prev
      [] prev = STATE_OPEN ->
            IF type = EVENT_CO_ALARM THEN STATE_EMERGENCY ELSE prev
      [] prev = STATE_EMERGENCY ->
            IF type = EVENT_BUTTON_PRESS THEN STATE_OPEN
            ELSE IF type = EVENT_CMD_STOP_EMER THEN STATE_NORMAL
            ELSE prev

\* handle_event: the switch on (prev_state, event->type).
NextState(prev, type) ==
    CASE prev = STATE_INIT ->
            IF type = EVENT_CO_ALARM THEN STATE_EMERGENCY ELSE prev
      [] prev = STATE_NORMAL ->
            IF type = EVENT_BUTTON_PRESS THEN STATE_OPEN
            ELSE IF type = EVENT_CO_ALARM THEN STATE_EMERGENCY
            ELSE prev
      [] prev = STATE_OPEN ->
            IF type = EVENT_CO_ALARM THEN STATE_EMERGENCY ELSE prev
      [] prev = STATE_EMERGENCY ->
            IF type = EVENT_CMD_STOP_EMER THEN STATE_NORMAL ELSE prev

\* apply_state_config: the levels written to the actuators for a state.
ConfigGreen(state) == IF state = STATE_EMERGENCY THEN 0 ELSE 1
ConfigRed(state) == IF state \in {STATE_INIT, STATE_EMERGENCY} THEN 1 ELSE 0
ConfigDoor(state) == IF state = STATE_NORMAL THEN 0 ELSE 90
ConfigBuzzer(state) == state \in {STATE_INIT, STATE_EMERGENCY}

\* Mutant: the send_telemetry_event call of the OPEN case is missing too.
ConfigTelemetry_OpenSilent(state) ==
    CASE state \in {STATE_INIT, STATE_OPEN} -> << >>
      [] state = STATE_NORMAL ->
            << Telemetry("STATE_NORMAL", g_current_co_ppm, STATE_NORMAL) >>
      [] state = STATE_EMERGENCY ->
            << Telemetry("EMERGENCY_ON", g_current_co_ppm, STATE_EMERGENCY) >>

\* apply_state_config: the records a state's case sends (none for INIT, whose
\* send_telemetry_event call is commented out).
ConfigTelemetry(state) ==
    CASE state = STATE_INIT -> << >>
      [] state = STATE_NORMAL ->
            << Telemetry("STATE_NORMAL", g_current_co_ppm, STATE_NORMAL) >>
      [] state = STATE_OPEN ->
            << Telemetry("STATE_OPEN", g_current_co_ppm, STATE_OPEN) >>
      [] state = STATE_EMERGENCY ->
            << Telemetry("EMERGENCY_ON", g_current_co_ppm, STATE_EMERGENCY) >>

QUEUE_SIZE_IFTTT == 2

\* webhookQueue before ifttt_webhook_init has created it (static ... = NULL).
NullQueue == << -1 >>

\* ifttt_webhook_trigger: with IFTTT_ENABLED, a signal is sent to webhookQueue
\* when the queue exists, with 0 ticks (skipped when the queue is full).
ifttt_webhook_trigger(queue) ==
    IF queue = NullQueue THEN queue ELSE xQueueSend(queue, 1, QUEUE_SIZE_IFTTT)

\* Mutant: the latch test is inverted.
WebhookFires_Inverted(state, latch) == state = STATE_EMERGENCY /\ latch

\* apply_state_config, case STATE_EMERGENCY: whether ifttt_webhook_trigger is called.
WebhookFires(state, latch) == state = STATE_EMERGENCY /\ ~latch

\* Mutant: the EMERGENCY case does not set the latch.
LatchAfter_NeverSet(state, latch) == IF state = STATE_NORMAL THEN FALSE ELSE latch

\* Mutant: the NORMAL case does not reset the latch.
LatchAfter_NoReset(state, latch) == IF state = STATE_EMERGENCY THEN TRUE ELSE latch

\* apply_state_config: emergency_webhook_triggered after the case has run.
LatchAfter(state, latch) ==
    CASE state = STATE_NORMAL -> FALSE
      [] state = STATE_EMERGENCY -> TRUE
      [] OTHER -> latch

\* Mutant: send_telemetry_event waits for room (portMAX_DELAY instead of 0).
FsmSendBlocks_Waits == TRUE

\* send_telemetry_event passes 0 ticks to xQueueSend: the FSM never waits for room.
FsmSendBlocks == FALSE

\* fsm_task, init timer: elapsed >= INIT_DURATION_MS.
InitTimerExpired(elapsed) == elapsed >= INIT_DURATION_MS
\* Mutant: the door timer compares with > instead of >=.
DoorTimerExpired_Strict(elapsed) == elapsed > DOOR_OPEN_DURATION_MS

\* fsm_task, door timer: elapsed >= DOOR_OPEN_DURATION_MS.
DoorTimerExpired(elapsed) == elapsed >= DOOR_OPEN_DURATION_MS

\* fsm_task lines 216-230, after handle_event: the timers follow the state.
\* An inactive timer's start time is dead; its elapsed time is kept at 0.
AfterEvent(state) ==
    /\ door_timer_active' = (state = STATE_OPEN)
    /\ door_elapsed' = 0
    /\ init_timer_active' = (init_timer_active /\ state = STATE_INIT)
    /\ init_elapsed' = IF state = STATE_INIT THEN init_elapsed ELSE 0

\* fsm_task entry: apply_state_config(STATE_INIT, 0.0f) is called.
FsmStart ==
    /\ fsm_pc = "start"
    /\ fsm_pc' = "actuate"
    /\ fsm_ret' = "start"
    /\ apply_state' = STATE_INIT
    /\ UNCHANGED << current_state, emergency_webhook_triggered, event,
                    init_timer_active, door_timer_active, timerVars, hwVars,
                    fsmEventQueue, webhook_triggers, telemetryQueue, adc_reading >>
    /\ UNCHANGED << testVars, agentVars, unitVars >>

\* xQueueReceive returns an event; handle_event computes the next state and, if it
\* differs, calls fsm_set_state; apply_state_config then runs in FsmActuate and
\* FsmEmit.  With no state change the loop goes on to lines 216-230 at once.
FsmReceive ==
    /\ fsm_pc = "recv"
    /\ fsmEventQueue # << >>
    /\ LET next_state == NextState(current_state, Head(fsmEventQueue).type)
       IN  /\ event' = Head(fsmEventQueue)
           /\ fsmEventQueue' = Tail(fsmEventQueue)
           /\ IF next_state # current_state
              THEN /\ current_state' = next_state
                   /\ fsm_pc' = "actuate"
                   /\ fsm_ret' = "event"
                   /\ apply_state' = next_state
                   /\ UNCHANGED << init_timer_active, door_timer_active, timerVars >>
              ELSE /\ AfterEvent(current_state)
                   /\ fsm_pc' = "timers"
                   /\ UNCHANGED << current_state, fsm_ret, apply_state >>
    /\ UNCHANGED << emergency_webhook_triggered, hwVars, webhook_triggers,
                    telemetryQueue, adc_reading >>
    /\ UNCHANGED << testVars, agentVars, unitVars >>

\* xQueueReceive times out (50 ms) on an empty queue.
FsmTimeout ==
    /\ fsm_pc = "recv"
    /\ fsmEventQueue = << >>
    /\ fsm_pc' = "timers"
    /\ UNCHANGED << current_state, emergency_webhook_triggered, event, fsm_ret,
                    apply_state, init_timer_active, door_timer_active, timerVars,
                    hwVars, fsmEventQueue, webhook_triggers, telemetryQueue,
                    adc_reading >>
    /\ UNCHANGED << testVars, agentVars, unitVars >>

\* fsm_task lines 233-253: the init and door timers.  An expired timer calls
\* fsm_set_state(STATE_NORMAL); apply_state_config runs in the next steps.  The
\* local `event` is not read again before the next xQueueReceive overwrites it:
\* the dead value is kept at NoEvent.
FsmTimers ==
    /\ fsm_pc = "timers"
    /\ IF \/ (init_timer_active /\ current_state = STATE_INIT
                /\ InitTimerExpired(init_elapsed))
          \/ (door_timer_active /\ current_state = STATE_OPEN
                /\ DoorTimerExpired(door_elapsed))
       THEN /\ current_state' = STATE_NORMAL
            /\ fsm_pc' = "actuate"
            /\ fsm_ret' = "timer"
            /\ apply_state' = STATE_NORMAL
       ELSE /\ fsm_pc' = "recv"
            /\ UNCHANGED << current_state, fsm_ret, apply_state >>
    /\ event' = NoEvent
    /\ UNCHANGED << emergency_webhook_triggered, init_timer_active,
                    door_timer_active, timerVars, hwVars, fsmEventQueue,
                    webhook_triggers, telemetryQueue, adc_reading >>
    /\ UNCHANGED << testVars, agentVars, unitVars >>

\* apply_state_config, first half: the gpio_set_level, door_set_angle and
\* buzzer_set_active calls of the state's case.
FsmActuate ==
    /\ fsm_pc = "actuate"
    /\ green_led' = ConfigGreen(apply_state)
    /\ red_led' = ConfigRed(apply_state)
    /\ door_angle' = ConfigDoor(apply_state)
    /\ buzzer_active' = ConfigBuzzer(apply_state)
    /\ fsm_pc' = "emit"
    /\ UNCHANGED << current_state, emergency_webhook_triggered, event, fsm_ret,
                    apply_state, init_timer_active, door_timer_active, timerVars,
                    fsmEventQueue, webhook_triggers, telemetryQueue, adc_reading >>
    /\ UNCHANGED << testVars, agentVars, unitVars >>

\* apply_state_config, second half: send_telemetry_event, the webhook trigger and
\* the latch; then the caller's bookkeeping (the init timer is started after the
\* INIT configuration, lines 216-230 run after handle_event, and an expired timer
\* is switched off).
FsmEmit ==
    /\ fsm_pc = "emit"
    /\ LET records == ConfigTelemetry(apply_state)
       IN  /\ (FsmSendBlocks /\ records # << >>)
                  => Len(telemetryQueue) < QUEUE_SIZE_TELEMETRY
           /\ telemetryQueue' =
                  IF records = << >> THEN telemetryQueue
                  ELSE xQueueSend(telemetryQueue, records[1], QUEUE_SIZE_TELEMETRY)
    /\ webhook_triggers' =
           IF WebhookFires(apply_state, emergency_webhook_triggered)
           THEN (webhook_triggers + 1) % TriggerWrap
           ELSE webhook_triggers
    /\ webhookQueue' =
           IF WebhookFires(apply_state, emergency_webhook_triggered)
           THEN ifttt_webhook_trigger(webhookQueue)
           ELSE webhookQueue
    /\ emergency_webhook_triggered' = LatchAfter(apply_state, emergency_webhook_triggered)
    /\ CASE fsm_ret = "start" ->
               /\ init_timer_active' = TRUE
               /\ init_elapsed' = 0
               /\ fsm_pc' = "recv"
               /\ UNCHANGED << door_timer_active, door_elapsed >>
         [] fsm_ret = "event" ->
               /\ AfterEvent(current_state)
               /\ fsm_pc' = "timers"
         [] fsm_ret = "timer" ->
               /\ init_timer_active' = FALSE
               /\ door_timer_active' = FALSE
               /\ init_elapsed' = 0
               /\ door_elapsed' = 0
               /\ fsm_pc' = "recv"
    /\ UNCHANGED << current_state, event, fsm_ret, apply_state, hwVars,
                    fsmEventQueue, adc_reading >>
    /\ UNCHANGED << testVars, agentVars, ringApiVars, ringTaskVars, codecVars,
                    lockVars, mainVars >>

FsmStep == FsmStart \/ FsmReceive \/ FsmTimeout \/ FsmTimers \/ FsmActuate \/ FsmEmit

\* ------------------------------------------------------------ time
\* The tick count advances: every running timer's elapsed time grows by TICK_MS,
\* up to the duration it is compared with.
Tick ==
    /\ \/ (init_timer_active /\ init_elapsed < INIT_DURATION_MS)
       \/ (door_timer_active /\ door_elapsed < DOOR_OPEN_DURATION_MS)
    /\ init_elapsed' = IF init_timer_active
                       THEN Min(init_elapsed + TICK_MS, INIT_DURATION_MS)
                       ELSE init_elapsed
    /\ door_elapsed' = IF door_timer_active
                       THEN Min(door_elapsed + TICK_MS, DOOR_OPEN_DURATION_MS)
                       ELSE door_elapsed
    /\ UNCHANGED << fsmVars, hwVars, fsmEventQueue, webhook_triggers,
                    telemetryQueue, adc_reading >>
    /\ UNCHANGED << testVars, agentVars, unitVars >>

\* ------------------------------------------------------------ sensor.c
\* adc_to_co_ppm: adc * 200 / 4095, here in 1/100 ppm rounded to nearest.
adc_to_co_ppm(adc) ==
    (2 * adc * ADC_PPM_RANGE * 100 + ADC_FULL_SCALE) \div (2 * ADC_FULL_SCALE)

\* Mutant: the comparison is made one ppm below the threshold.
SensorAlarm_OnePpmLow(adc) ==
    adc * ADC_PPM_RANGE >= (CO_THRESHOLD_SENSOR_PPM - 1) * ADC_FULL_SCALE

\* sensor_task: co_ppm >= CO_THRESHOLD_SENSOR_PPM, on the exact quotient
\* adc * 200 / 4095 (the rounding to float is monotone and 100.0 is a float).
SensorAlarm(adc) == adc * ADC_PPM_RANGE >= CO_THRESHOLD_SENSOR_PPM * ADC_FULL_SCALE

\* One cycle of sensor_task (highest priority, every call non-blocking): read the
\* ADC, send CO_ALARM when at or above the threshold, read the state with
\* fsm_get_state and send the READING record.
SensorCycle ==
    /\ fsmEventQueue' =
           IF SensorAlarm(adc_reading)
           THEN xQueueSend(fsmEventQueue,
                           [type |-> EVENT_CO_ALARM, co_ppm |-> adc_to_co_ppm(adc_reading)],
                           QUEUE_SIZE_FSM_EVENT)
           ELSE fsmEventQueue
    /\ telemetryQueue' =
           xQueueSend(telemetryQueue,
                      Telemetry("READING", adc_to_co_ppm(adc_reading), current_state),
                      QUEUE_SIZE_TELEMETRY)
    /\ UNCHANGED << fsmVars, timerVars, hwVars, webhook_triggers, adc_reading >>
    /\ UNCHANGED << testVars, agentVars, unitVars >>

\* The CO concentration at the sensor changes.
AdcChange ==
    /\ adc_reading' \in AdcValues \ {adc_reading}
    /\ UNCHANGED << fsmVars, timerVars, hwVars, fsmEventQueue, webhook_triggers,
                    telemetryQueue >>
    /\ UNCHANGED << testVars, agentVars, unitVars >>

\* ------------------------------------------------------------ other producers
\* xQueueSend(fsmEventQueue, &event, 0) by a producer other than the sensor.
InjectEvent ==
    /\ \E e \in InjectedEvents :
           /\ Len(fsmEventQueue) < QUEUE_SIZE_FSM_EVENT
           /\ fsmEventQueue' = Append(fsmEventQueue, e)
    /\ UNCHANGED << fsmVars, timerVars, hwVars, webhook_triggers, telemetryQueue,
                    adc_reading >>
    /\ UNCHANGED << testVars, agentVars, unitVars >>

\* ------------------------------------------------------------ agent_task.c
\* agent_task takes one record off telemetryQueue (xQueueReceive).
AgentDequeue ==
    /\ telemetryQueue # << >>
    /\ telemetryQueue' = Tail(telemetryQueue)
    /\ UNCHANGED << fsmVars, timerVars, hwVars, fsmEventQueue, webhook_triggers,
                    adc_reading >>
    /\ UNCHANGED << testVars, agentVars, unitVars >>

\* ------------------------------------------------------------ test_fsm.c
\* fsm_get_state: the value of current_state, read under state_mutex.
fsm_get_state == current_state

\* app_main: vTaskDelay(pdMS_TO_TICKS(500)) between fsm_init() and UNITY_BEGIN().
SETTLE_MS == 500

TestDelay(ms) == [op |-> "delay", ms |-> ms, type |-> "NONE", co_ppm |-> 0, state |-> "NONE"]
TestSendEvent(type, co_ppm) ==
    [op |-> "send", ms |-> 0, type |-> type, co_ppm |-> co_ppm, state |-> "NONE"]
TestAssertState(state) ==
    [op |-> "assert", ms |-> 0, type |-> "NONE", co_ppm |-> 0, state |-> state]

\* The statements of app_main's settling delay (test 0) and of the five tests, in
\* RUN_TEST order.
TestSteps(t) ==
    CASE t = 0 -> << TestDelay(SETTLE_MS) >>
      [] t = 1 -> << TestAssertState(STATE_NORMAL) >>
      [] t = 2 -> << TestSendEvent(EVENT_BUTTON_PRESS, 0), TestDelay(100),
                     TestAssertState(STATE_OPEN), TestDelay(5100),
                     TestAssertState(STATE_NORMAL) >>
      [] t = 3 -> << TestSendEvent(EVENT_CO_ALARM, 5000), TestDelay(100),
                     TestAssertState(STATE_EMERGENCY) >>
      [] t = 4 -> << TestSendEvent(EVENT_CO_ALARM, 5000), TestDelay(100),
                     TestAssertState(STATE_EMERGENCY),
                     TestSendEvent(EVENT_CMD_RESET, 0), TestDelay(100),
                     TestAssertState(STATE_NORMAL) >>
      [] t = 5 -> << TestSendEvent(EVENT_CO_ALARM, 5000), TestDelay(100),
                     TestAssertState(STATE_EMERGENCY),
                     TestSendEvent(EVENT_BUTTON_PRESS, 0), TestDelay(100),
                     TestAssertState(STATE_EMERGENCY),
                     TestSendEvent(EVENT_CMD_RESET, 0), TestDelay(100) >>
      [] OTHER -> << >>

\* Number of RUN_TEST calls in app_main.
TestCount == 5

TestRunning == test_pc.test <= TestCount
TestStatement == TestSteps(test_pc.test)[test_pc.step]

\* The position after the current statement; a test that runs to its end passes.
TestAdvance ==
    IF test_pc.step < Len(TestSteps(test_pc.test))
    THEN /\ test_pc' = [test_pc EXCEPT !.step = test_pc.step + 1]
         /\ UNCHANGED test_results
    ELSE /\ test_pc' = [test |-> test_pc.test + 1, step |-> 1]
         /\ test_results' = IF test_pc.test = 0 THEN test_results
                            ELSE [test_results EXCEPT ![test_pc.test] = "PASS"]

\* xQueueSend(fsmEventQueue, &event, 0) in a test.
TestSend ==
    /\ TestRunning
    /\ TestStatement.op = "send"
    /\ fsmEventQueue' =
           xQueueSend(fsmEventQueue,
                      [type |-> TestStatement.type, co_ppm |-> TestStatement.co_ppm],
                      QUEUE_SIZE_FSM_EVENT)
    /\ TestAdvance
    /\ UNCHANGED << fsmVars, timerVars, hwVars, webhook_triggers, telemetryQueue,
                    adc_reading, test_elapsed, agentVars,
                    unitVars >>

\* vTaskDelay returns: the delay has elapsed.
TestDelayDone ==
    /\ TestRunning
    /\ TestStatement.op = "delay"
    /\ test_elapsed >= TestStatement.ms
    /\ test_elapsed' = 0
    /\ TestAdvance
    /\ UNCHANGED << fsmVars, timerVars, hwVars, fsmEventQueue, webhook_triggers,
                    telemetryQueue, adc_reading, agentVars,
                    unitVars >>

\* TEST_ASSERT_EQUAL(state, fsm_get_state()): a failed assertion ends the test.
TestAssert ==
    /\ TestRunning
    /\ TestStatement.op = "assert"
    /\ IF fsm_get_state = TestStatement.state
       THEN TestAdvance
       ELSE /\ test_pc' = [test |-> test_pc.test + 1, step |-> 1]
            /\ test_results' = [test_results EXCEPT ![test_pc.test] = "FAIL"]
    /\ UNCHANGED << fsmVars, timerVars, hwVars, fsmEventQueue, webhook_triggers,
                    telemetryQueue, adc_reading, test_elapsed, agentVars,
                    unitVars >>

\* Time passes while the test task sits in vTaskDelay and the FSM task (priority
\* 5, above the test's) is blocked in xQueueReceive with nothing to handle: no
\* event pending and no expired timer it has not acted on yet.
TestTick ==
    /\ TestRunning
    /\ TestStatement.op = "delay"
    /\ test_elapsed < TestStatement.ms
    /\ fsm_pc = "recv"
    /\ fsmEventQueue = << >>
    /\ ~(init_timer_active /\ current_state = STATE_INIT
            /\ InitTimerExpired(init_elapsed))
    /\ ~(door_timer_active /\ current_state = STATE_OPEN
            /\ DoorTimerExpired(door_elapsed))
    /\ test_elapsed' = Min(test_elapsed + TEST_TICK_MS, TestStatement.ms)
    /\ init_elapsed' = IF init_timer_active
                       THEN Min(init_elapsed + TEST_TICK_MS, INIT_DURATION_MS)
                       ELSE init_elapsed
    /\ door_elapsed' = IF door_timer_active
                       THEN Min(door_elapsed + TEST_TICK_MS, DOOR_OPEN_DURATION_MS)
                       ELSE door_elapsed
    /\ UNCHANGED << fsmVars, hwVars, fsmEventQueue, webhook_triggers, telemetryQueue,
                    adc_reading, test_pc, test_results, agentVars,
                    unitVars >>

\* ------------------------------------------------------------ mqtt_handler.c
\* mqtt_event_handler, MQTT_EVENT_CONNECTED.
MqttConnect ==
    /\ ~mqtt_connected
    /\ mqtt_connected' = TRUE
    /\ UNCHANGED << fsmVars, timerVars, hwVars, fsmEventQueue, webhook_triggers,
                    telemetryQueue, adc_reading, testVars, unitVars, agent_pc, is_connected,
                    was_connected, published, lost, taken_offline, publish_log,
                    next_stamp,
                    ringVars >>

\* mqtt_event_handler, MQTT_EVENT_DISCONNECTED.
MqttDisconnect ==
    /\ mqtt_connected
    /\ mqtt_connected' = FALSE
    /\ UNCHANGED << fsmVars, timerVars, hwVars, fsmEventQueue, webhook_triggers,
                    telemetryQueue, adc_reading, testVars, unitVars, agent_pc, is_connected,
                    was_connected, published, lost, taken_offline, publish_log,
                    next_stamp,
                    ringVars >>

\* mqtt_is_connected.
mqtt_is_connected == mqtt_connected

\* mqtt_publish_raw: refuses when the link is down.
mqtt_publish_raw == mqtt_connected

\* ------------------------------------------------------------ ring_buffer.c
\* The zero-initialised element of the static buffer[] array.
NoRecord ==
    [ timestamp |-> 0, co_ppm |-> 0, alarm_active |-> FALSE, door_open |-> FALSE,
      state |-> STATE_INIT, event |-> "" ]

\* Mutant: a push on a full buffer does not move tail forward.
ring_buffer_push_TailStays(item) ==
    LET full == count = RING_BUFFER_SIZE
    IN  /\ buffer' = [buffer EXCEPT ![head] = item]
        /\ head' = (head + 1) % RING_BUFFER_SIZE
        /\ tail' = tail
        /\ count' = IF full THEN count ELSE count + 1

\* ring_buffer_push: when full the oldest item is given up (tail moves forward);
\* the item is written at head.
ring_buffer_push(item) ==
    LET full == count = RING_BUFFER_SIZE
    IN  /\ buffer' = [buffer EXCEPT ![head] = item]
        /\ head' = (head + 1) % RING_BUFFER_SIZE
        /\ tail' = IF full THEN (tail + 1) % RING_BUFFER_SIZE ELSE tail
        /\ count' = IF full THEN count ELSE count + 1

\* ring_buffer_pop on a buffer that is not empty: buffer[tail] is handed out.
ring_buffer_pop ==
    /\ tail' = (tail + 1) % RING_BUFFER_SIZE
    /\ count' = count - 1
    /\ UNCHANGED << buffer, head >>

\* ring_buffer_count.
ring_buffer_count == count

\* The timestamps of the records held in the ring buffer, oldest first.
RingStamps == [i \in 1..count |-> buffer[(tail + i - 1) % RING_BUFFER_SIZE].timestamp]

\* ------------------------------------------------------------ agent_task.c
\* The packet of a record handed to mqtt_publish_raw, by its message type.
Packet(type, item) == [type |-> type, timestamp |-> item.timestamp]

\* Mutant: no event packet follows the telemetry packet.
PacketsOf_TelemetryOnly(item) == << Packet("TELEMETRY", item) >>

\* publish_telemetry: the telemetry packet always, then the event packet when
\* strncmp(telemetry->event, "READING", ...) != 0.
PacketsOf(item) ==
    << Packet("TELEMETRY", item) >>
        \o (IF item.event # "READING" THEN << Packet("EVENT", item) >> ELSE << >>)

\* publish_telemetry: the mqtt_publish_raw calls for the record; a refused
\* telemetry packet is only counted (stats_record_telemetry_buffered) and the
\* record is gone.
publish_telemetry(item) ==
    /\ publish_log' = PacketsOf(item)
    /\ IF mqtt_publish_raw
       THEN /\ published' = Append(published, item.timestamp)
            /\ UNCHANGED lost
       ELSE /\ lost' = lost \cup {item.timestamp}
            /\ UNCHANGED published

\* agent_task, step 1: is_connected && !was_connected.
ReconnectDetected(is, was) == is /\ ~was

\* agent_task, top of the loop: the link status is sampled; on a reconnect
\* flush_ring_buffer is entered, which returns at once when ring_buffer_count()
\* is 0.
AgentPoll ==
    /\ agent_pc = "poll"
    /\ is_connected' = mqtt_is_connected
    /\ agent_pc' = IF ReconnectDetected(mqtt_is_connected, was_connected)
                      /\ ring_buffer_count # 0
                   THEN "flush" ELSE "recv"
    /\ UNCHANGED << fsmVars, timerVars, hwVars, fsmEventQueue, webhook_triggers,
                    telemetryQueue, adc_reading, testVars, unitVars, mqtt_connected,
                    was_connected, published, lost, taken_offline, publish_log,
                    next_stamp,
                    ringVars >>

\* flush_ring_buffer, one turn of the while loop: ring_buffer_pop hands out the
\* oldest record, which is published; the loop ends when the buffer is empty.
AgentFlushPop ==
    /\ agent_pc = "flush"
    /\ IF count = 0
       THEN /\ agent_pc' = "recv"
            /\ UNCHANGED << published, lost, publish_log, ringVars >>
       ELSE /\ ring_buffer_pop
            /\ publish_telemetry(buffer[tail])
            /\ UNCHANGED agent_pc
    /\ UNCHANGED << fsmVars, timerVars, hwVars, fsmEventQueue, webhook_triggers,
                    telemetryQueue, adc_reading, testVars, unitVars, mqtt_connected,
                    is_connected, was_connected, taken_offline, next_stamp >>

\* agent_task, step 2: xQueueReceive returns a record, which is published when the
\* sampled status says connected and pushed to the ring buffer otherwise.
AgentReceive ==
    /\ agent_pc = "recv"
    /\ telemetryQueue # << >>
    /\ telemetryQueue' = Tail(telemetryQueue)
    /\ LET data == Head(telemetryQueue)
       IN  /\ IF is_connected
              THEN /\ publish_telemetry(data)
                   /\ UNCHANGED ringVars
              ELSE /\ ring_buffer_push(data)
                   /\ UNCHANGED << published, lost, publish_log >>
           /\ taken_offline' = IF mqtt_connected THEN taken_offline
                               ELSE taken_offline \cup {data.timestamp}
    /\ was_connected' = is_connected
    /\ agent_pc' = "poll"
    /\ UNCHANGED << fsmVars, timerVars, hwVars, fsmEventQueue, webhook_triggers,
                    adc_reading, testVars, unitVars, mqtt_connected, is_connected, next_stamp >>

\* agent_task, step 2: xQueueReceive times out (100 ms) on an empty channel.
AgentReceiveTimeout ==
    /\ agent_pc = "recv"
    /\ telemetryQueue = << >>
    /\ was_connected' = is_connected
    /\ agent_pc' = "poll"
    /\ UNCHANGED << fsmVars, timerVars, hwVars, fsmEventQueue, webhook_triggers,
                    telemetryQueue, adc_reading, testVars, unitVars, mqtt_connected,
                    is_connected, published, lost, taken_offline, publish_log,
                    next_stamp,
                    ringVars >>

\* The tags of the records sent: a sample of the sensor, a transition of the FSM.
RecordTags == {"READING", "STATE_OPEN"}

\* A producer (sensor_task, or send_telemetry_event of the FSM) sends a record
\* stamped with the current time: xQueueSend(telemetryQueue, &telem, 0).
TelemetrySend ==
    /\ next_stamp <= MaxRecords
    /\ \E tag \in RecordTags :
           telemetryQueue' =
               xQueueSend(telemetryQueue,
                          [Telemetry(tag, adc_to_co_ppm(adc_reading), current_state)
                               EXCEPT !.timestamp = next_stamp],
                          QUEUE_SIZE_TELEMETRY)
    /\ next_stamp' = next_stamp + 1
    /\ UNCHANGED << fsmVars, timerVars, hwVars, fsmEventQueue, webhook_triggers,
                    adc_reading, testVars, unitVars, mqtt_connected, agent_pc, is_connected,
                    was_connected, published, lost, taken_offline, publish_log,
                    ringVars >>

\* ------------------------------------------------------------ ring buffer interface
\* The tasks that call the ring buffer interface, and the value of the mutex
\* holder when buffer_mutex is free.
RingTasks == {"A", "B"}
NoTask == "none"

\* buffer_mutex before ring_buffer_init has created it (static ... = NULL).
NullMutex == "NULL mutex"

\* The result of a call that has not returned.
NoResult == "none"

\* Mutant: pop hands out the newest record (the one before head).
ring_buffer_oldest_Newest == buffer[(head + RING_BUFFER_SIZE - 1) % RING_BUFFER_SIZE]

\* ring_buffer_pop: memcpy(item, &buffer[tail], ...), the record handed out.
ring_buffer_oldest == buffer[tail]

\* ring_buffer_clear, under the lock: head, tail and count are reset.
ring_buffer_clear ==
    /\ head' = 0
    /\ tail' = 0
    /\ count' = 0
    /\ UNCHANGED buffer

\* A record stamped with the current time, as the producers build it.
StampedRecord == [Telemetry("READING", 0, STATE_NORMAL) EXCEPT !.timestamp = next_stamp]

\* A whole ring_buffer_push call by the only caller (the lock is free and taken).
RingPush ==
    /\ next_stamp <= MaxPushes
    /\ ring_buffer_push(StampedRecord)
    /\ next_stamp' = next_stamp + 1
    /\ ring_pushed' = Append(ring_pushed, next_stamp)
    /\ UNCHANGED << systemVars, ring_popped, ringTaskVars >>

\* A whole ring_buffer_pop call: false on an empty buffer, otherwise the oldest
\* record is handed out.
RingPop ==
    /\ IF count = 0
       THEN UNCHANGED << ringVars, ring_popped >>
       ELSE /\ ring_buffer_pop
            /\ ring_popped' = Append(ring_popped, ring_buffer_oldest.timestamp)
    /\ UNCHANGED << systemVars, next_stamp, ring_pushed, ringTaskVars >>

\* A whole ring_buffer_clear call.
RingClear ==
    /\ ring_buffer_clear
    /\ ring_pushed' = << >>
    /\ ring_popped' = << >>
    /\ UNCHANGED << systemVars, next_stamp, ringTaskVars >>

\* ------------------------------------------------------------ ring buffer, concurrent callers
\* Each function of the interface, called by task t, as the steps between which
\* another task can run.  xSemaphoreTake succeeds only on a free mutex; when it
\* times out push and pop return false (TaskTakeTimeout).
RingPcSet(t, pc) == ring_pc' = [ring_pc EXCEPT ![t] = pc]

\* xSemaphoreTake(buffer_mutex, ...) succeeds at the start of push, pop, count /
\* is_empty or clear.
TaskTake(t) ==
    /\ ring_pc[t] = "idle"
    /\ buffer_mutex = NoTask
    /\ buffer_mutex' = t
    /\ \E pc \in {"push_check", "pop_check", "read", "clear"} :
           /\ (pc = "push_check") => next_stamp <= MaxPushes
           /\ RingPcSet(t, pc)
    /\ ring_ret' = [ring_ret EXCEPT ![t] = NoResult]
    /\ UNCHANGED << systemVars, next_stamp, ring_out, current_count, ringVars, ringApiVars >>

\* ring_buffer_push, lines 89-94: on a full buffer tail moves forward and count
\* is decremented.
TaskPushEvict(t) ==
    /\ ring_pc[t] = "push_check"
    /\ IF count = RING_BUFFER_SIZE
       THEN /\ tail' = (tail + 1) % RING_BUFFER_SIZE
            /\ count' = count - 1
       ELSE UNCHANGED << tail, count >>
    /\ RingPcSet(t, "push_write")
    /\ UNCHANGED << systemVars, next_stamp, ring_ret, ring_out, current_count, buffer, head, buffer_mutex, ringApiVars >>

\* ring_buffer_push, lines 97-102: the item is copied to buffer[head], head
\* advances and count is incremented.
TaskPushWrite(t) ==
    /\ ring_pc[t] = "push_write"
    /\ buffer' = [buffer EXCEPT ![head] = StampedRecord]
    /\ head' = (head + 1) % RING_BUFFER_SIZE
    /\ count' = count + 1
    /\ next_stamp' = next_stamp + 1
    /\ ring_ret' = [ring_ret EXCEPT ![t] = "true"]
    /\ RingPcSet(t, "give")
    /\ UNCHANGED << systemVars, tail, buffer_mutex, ring_out, current_count, ringApiVars >>

\* Mutant: pop copies buffer[tail] out before it looks at count.
PopEmptyItem_CopiedFirst(item) == ring_buffer_oldest.timestamp

\* ring_buffer_pop, lines 132-135: *item when count == 0 ends the call; the
\* memcpy of line 138 has not run.
PopEmptyItem(item) == item

\* ring_buffer_pop, lines 132-135: an empty buffer ends the call with false.
TaskPopCheck(t) ==
    /\ ring_pc[t] = "pop_check"
    /\ IF count = 0
       THEN /\ RingPcSet(t, "give")
            /\ ring_ret' = [ring_ret EXCEPT ![t] = "false"]
            /\ ring_out' = [ring_out EXCEPT ![t] = PopEmptyItem(@)]
       ELSE /\ RingPcSet(t, "pop_copy")
            /\ UNCHANGED << ring_ret, ring_out >>
    /\ UNCHANGED << systemVars, next_stamp, ringVars, buffer_mutex, ringApiVars, current_count >>

\* ring_buffer_pop, lines 138-142: buffer[tail] is copied out, tail advances and
\* count is decremented.
TaskPopCopy(t) ==
    /\ ring_pc[t] = "pop_copy"
    /\ count > 0 - MaxUnderflow
    /\ ring_buffer_pop
    /\ ring_out' = [ring_out EXCEPT ![t] = ring_buffer_oldest.timestamp]
    /\ ring_ret' = [ring_ret EXCEPT ![t] = "true"]
    /\ RingPcSet(t, "give")
    /\ UNCHANGED << systemVars, next_stamp, buffer_mutex, ringApiVars, current_count >>

\* ring_buffer_is_empty, lines 163-166, and ring_buffer_count, lines 185-188,
\* under the lock: empty = (count == 0), current_count = count.
TaskRead(t) ==
    /\ ring_pc[t] = "read"
    /\ ring_ret' = [ring_ret EXCEPT ![t] = IF count = 0 THEN "true" ELSE "false"]
    /\ current_count' = count
    /\ RingPcSet(t, "give")
    /\ UNCHANGED << systemVars, next_stamp, ring_out, ringVars, buffer_mutex, ringApiVars >>

\* ring_buffer_is_empty, lines 158-169, and ring_buffer_count, lines 180-191,
\* when the lock is not had: buffer_mutex is NULL, or another task keeps it for
\* MUTEX_TIMEOUT_MS.  The initial values are returned: empty = true,
\* current_count = 0.
TaskReadUnlocked(t) ==
    /\ ring_pc[t] = "idle"
    /\ buffer_mutex \notin {NoTask, t}
    /\ ring_ret' = [ring_ret EXCEPT ![t] = "true"]
    /\ current_count' = 0
    /\ UNCHANGED << systemVars, next_stamp, ringVars, buffer_mutex, ring_pc, ring_out,
                    ringApiVars >>

\* ring_buffer_clear, lines 206-208.
TaskClear(t) ==
    /\ ring_pc[t] = "clear"
    /\ ring_buffer_clear
    /\ RingPcSet(t, "give")
    /\ UNCHANGED << systemVars, next_stamp, ring_ret, ring_out, current_count, buffer_mutex, ringApiVars >>

\* xSemaphoreGive(buffer_mutex) and the return of the call, with which its
\* local current_count is gone.  When ring_buffer_init has replaced the mutex
\* meanwhile, the caller gives a mutex it does not hold: on a free mutex nothing
\* happens, on one held by another task the outcome is not defined (the mutex is
\* released or stays held).
TaskGive(t) ==
    /\ ring_pc[t] = "give"
    /\ \/ buffer_mutex = t /\ buffer_mutex' = NoTask
       \/ buffer_mutex = NoTask /\ buffer_mutex' = NoTask
       \/ buffer_mutex \notin {t, NoTask} /\ buffer_mutex' \in {buffer_mutex, NoTask}
    /\ RingPcSet(t, "idle")
    /\ current_count' = 0
    /\ UNCHANGED << systemVars, next_stamp, ring_ret, ring_out, ringVars, ringApiVars >>

\* ring_buffer_init, line 55: buffer_mutex = xSemaphoreCreateMutex(), a new, free
\* mutex; no lock is taken.
TaskInitMutex(t) ==
    /\ ring_pc[t] = "idle"
    /\ buffer_mutex' = NoTask
    /\ RingPcSet(t, "init_reset")
    /\ UNCHANGED << systemVars, next_stamp, ring_ret, ring_out, current_count, ringVars, ringApiVars >>

\* ring_buffer_init, lines 58-60: head, tail and count are reset.
TaskInitReset(t) ==
    /\ ring_pc[t] = "init_reset"
    /\ ring_buffer_clear
    /\ RingPcSet(t, "idle")
    /\ UNCHANGED << systemVars, next_stamp, ring_ret, ring_out, current_count, buffer_mutex, ringApiVars >>

\* The item argument of a push or pop call: a null pointer or a record.
NullItem == "NULL"
ItemArguments == {NullItem, "record"}

\* ring_buffer_push lines 78-80, ring_buffer_pop lines 121-123:
\* if (item == NULL || buffer_mutex == NULL) return false, before the lock is
\* asked for.
TaskRejected(t) ==
    /\ ring_pc[t] = "idle"
    /\ \E item \in ItemArguments : item = NullItem \/ buffer_mutex = NullMutex
    /\ ring_ret' = [ring_ret EXCEPT ![t] = "false"]
    /\ UNCHANGED << systemVars, next_stamp, ringVars, buffer_mutex, ring_pc, ring_out, current_count,
                    ringApiVars >>

\* ring_buffer_push lines 83-86, ring_buffer_pop lines 126-129: another task
\* keeps buffer_mutex for MUTEX_TIMEOUT_MS, xSemaphoreTake gives up and the call
\* returns false.
TaskTakeTimeout(t) ==
    /\ ring_pc[t] = "idle"
    /\ buffer_mutex \notin {NoTask, NullMutex, t}
    /\ ring_ret' = [ring_ret EXCEPT ![t] = "false"]
    /\ UNCHANGED << systemVars, next_stamp, ringVars, buffer_mutex, ring_pc, ring_out, current_count,
                    ringApiVars >>

\* ------------------------------------------------------------ crc8.c
\* The ^ operator of C on two unsigned values.
RECURSIVE Xor(_, _)
Xor(a, b) ==
    IF a = 0 /\ b = 0
    THEN 0
    ELSE ((a + b) % 2) + 2 * Xor(a \div 2, b \div 2)

\* Mutant: the polynomial is never XORed in.
crc8_shift_NoPolynomial(crc) == (crc * 2) % 256

\* One round of the inner loop on the uint8_t crc: shift left, and XOR the
\* polynomial 0x07 in when the bit shifted out was set.
crc8_shift(crc) ==
    IF crc >= 128 THEN Xor((crc * 2) % 256, 7) ELSE (crc * 2) % 256

\* The inner loop: j rounds.
RECURSIVE crc8_bits(_, _)
crc8_bits(crc, j) == IF j = 0 THEN crc ELSE crc8_bits(crc8_shift(crc), j - 1)

\* The eight rounds of the inner loop, for every value of the uint8_t crc.
crc8_rounds == [crc \in 0..255 |-> crc8_bits(crc, 8)]

\* The outer loop from the running value crc over the bytes of data.
RECURSIVE crc8_from(_, _)
crc8_from(crc, data) ==
    IF data = << >>
    THEN crc
    ELSE crc8_from(crc8_rounds[Xor(crc, Head(data))], Tail(data))

crc8_calculate(data) == crc8_from(0, data)

\* ------------------------------------------------------------ protocol.c
PROTOCOL_START_MARKER == 170
PROTOCOL_END_MARKER == 85
MSG_TYPE_TELEMETRY == 1
MSG_TYPE_EVENT == 2
MSG_TYPE_STATUS == 3
PROTOCOL_EVENT_NAME_LEN == 16
PROTOCOL_MAX_PACKET_SIZE == 64

\* A float co_ppm is held as a whole number of thousandths of a ppm.
Thousandths(ppm) == ppm * 1000

\* Mutant: the value is scaled by ten instead of a hundred.
float_to_fixed16_Tenths(value) == ((value * 10) \div Thousandths(1)) % 65536

\* (uint16_t)(value * 100.0f): the product is truncated toward zero.  The
\* conversion is defined for products below 65536, the only ones it is given.
float_to_fixed16(value) == ((value * 100) \div Thousandths(1)) % 65536

pack_uint32_be(value) ==
    << (value \div 16777216) % 256, (value \div 65536) % 256,
       (value \div 256) % 256, value % 256 >>

pack_uint16_be(value) == << (value \div 256) % 256, value % 256 >>

\* Mutant: alarm_active goes to bit 0.
PacketFlags_AlarmInBit0(t) ==
    (IF t.alarm_active THEN 1 ELSE 0) + (IF t.door_open THEN 4 ELSE 0)

\* flags: bit 1 is alarm_active, bit 2 is door_open.
PacketFlags(t) ==
    (IF t.alarm_active THEN 2 ELSE 0) + (IF t.door_open THEN 4 ELSE 0)

\* Mutant: the CRC is taken over the payload only.
FramedAs_CrcOverPayload(type, payload_length, payload) ==
    << PROTOCOL_START_MARKER, type, payload_length >> \o payload
        \o << crc8_calculate(payload), PROTOCOL_END_MARKER >>

\* [START][TYPE][LEN][PAYLOAD][CRC8][END], the CRC taken over TYPE, LEN, PAYLOAD.
FramedAs(type, payload_length, payload) ==
    LET body == << type, payload_length >> \o payload
    IN  << PROTOCOL_START_MARKER >> \o body
            \o << crc8_calculate(body), PROTOCOL_END_MARKER >>

\* A frame whose LEN byte is the number of payload bytes written.
Framed(type, payload) == FramedAs(type, Len(payload), payload)

protocol_encode_telemetry(t) ==
    Framed(MSG_TYPE_TELEMETRY,
           pack_uint32_be(t.timestamp) \o pack_uint16_be(float_to_fixed16(t.co_ppm))
               \o << PacketFlags(t), t.state, 0, 0, 0 >>)

\* strnlen(telemetry->event, PROTOCOL_EVENT_NAME_LEN)
EventNameLen(t) == Min(Len(t.event), PROTOCOL_EVENT_NAME_LEN)

\* Mutant: the two reserved bytes are not counted in LEN.
EventPayloadLength_NoReserved(event_name_len) == 4 + 2 + 1 + event_name_len + 1 + 1

\* uint8_t payload_length = 4 + 2 + 1 + event_name_len + 1 + 1 + 2
EventPayloadLength(event_name_len) == (4 + 2 + 1 + event_name_len + 1 + 1 + 2) % 256

protocol_encode_event(t) ==
    FramedAs(MSG_TYPE_EVENT, EventPayloadLength(EventNameLen(t)),
           pack_uint32_be(t.timestamp) \o pack_uint16_be(float_to_fixed16(t.co_ppm))
               \o << EventNameLen(t) >> \o SubSeq(t.event, 1, EventNameLen(t))
               \o << PacketFlags(t), t.state, 0, 0 >>)

protocol_encode_status(s) ==
    Framed(MSG_TYPE_STATUS, << (IF s.armed THEN 1 ELSE 0), s.state, 0, 0 >>)

\* Mutant: the end marker is not looked at.
protocol_verify_packet_NoEndCheck(p) ==
    /\ Len(p) >= 6
    /\ p[1] = PROTOCOL_START_MARKER
    /\ p[Len(p) - 1] = crc8_calculate(SubSeq(p, 2, Len(p) - 2))

protocol_verify_packet(p) ==
    /\ Len(p) >= 6
    /\ p[1] = PROTOCOL_START_MARKER
    /\ p[Len(p)] = PROTOCOL_END_MARKER
    /\ p[Len(p) - 1] = crc8_calculate(SubSeq(p, 2, Len(p) - 2))

\* The decoder of a telemetry frame, the inverse of the payload layout: the
\* co_ppm comes back as hundredths of a ppm, here in thousandths.
protocol_decode_telemetry(p) ==
    [ timestamp |-> p[4] * 16777216 + p[5] * 65536 + p[6] * 256 + p[7],
      co_ppm |-> (p[8] * 256 + p[9]) * (Thousandths(1) \div 100),
      alarm_active |-> (p[10] \div 2) % 2 = 1,
      door_open |-> (p[10] \div 4) % 2 = 1,
      state |-> p[11] ]

\* The records and status blocks handed to the encoders.  Timestamps are
\* milliseconds since boot; co_ppm spans the sensor's scale of 0 to 200 ppm;
\* event names are the characters before the terminating NUL.
Timestamps == {0, 255, 256, 16909060, 305419896, 2147483647}
CoValues == {0, 9, 10, 1234, 45670, 45679, 99999, Thousandths(200)}
StateBytes == 0..3
EventNames ==
    { << >>, << 79, 78 >>,
      << 83, 84, 65, 84, 69, 95, 69, 77, 69, 82, 71, 69, 78, 67, 89 >>,
      << 83, 84, 65, 84, 69, 95, 69, 77, 69, 82, 71, 69, 78, 67, 89, 33 >> }
EventTimestamps == {16909060}
EventCoValues == {45679}

NoTelemetry ==
    [ timestamp |-> 0, co_ppm |-> 0, alarm_active |-> FALSE, door_open |-> FALSE,
      state |-> 0, event |-> << >> ]
NoStatus == [ armed |-> FALSE, state |-> 0 ]

\* A caller encodes a telemetry record and sends the frame.
EncodeTelemetry ==
    /\ packet_out = << >>
    /\ \E ts \in Timestamps, co \in CoValues, alarm \in BOOLEAN, door \in BOOLEAN,
          st \in StateBytes :
            telemetry' = [ timestamp |-> ts, co_ppm |-> co, alarm_active |-> alarm,
                           door_open |-> door, state |-> st, event |-> << >> ]
    /\ packet_out' = protocol_encode_telemetry(telemetry')
    /\ packet' = packet_out'
    /\ UNCHANGED << codecFrame, status, verify_ret >>

\* A caller encodes the event packet of a record and sends the frame.
EncodeEvent ==
    /\ packet_out = << >>
    /\ \E ts \in EventTimestamps, co \in EventCoValues, alarm \in BOOLEAN,
          door \in BOOLEAN, st \in StateBytes, name \in EventNames :
            telemetry' = [ timestamp |-> ts, co_ppm |-> co, alarm_active |-> alarm,
                           door_open |-> door, state |-> st, event |-> name ]
    /\ packet_out' = protocol_encode_event(telemetry')
    /\ packet' = packet_out'
    /\ UNCHANGED << codecFrame, status, verify_ret >>

\* A caller encodes a status block and sends the frame.
EncodeStatus ==
    /\ packet_out = << >>
    /\ \E armed \in BOOLEAN, st \in StateBytes :
            status' = [ armed |-> armed, state |-> st ]
    /\ packet_out' = protocol_encode_status(status')
    /\ packet' = packet_out'
    /\ UNCHANGED << codecFrame, telemetry, verify_ret >>

\* The position, in the frame, of the bytes of the payload.
PayloadBytes(p) == 4..(Len(p) - 2)

\* One bit of one payload byte is inverted on the way to the receiver.
FlipPayloadBit ==
    /\ packet_out # << >>
    /\ packet = packet_out
    /\ \E i \in PayloadBytes(packet), b \in 0..7 :
            packet' = [packet EXCEPT ![i] = Xor(@, 2 ^ b)]
    /\ UNCHANGED << codecFrame, telemetry, status, packet_out, verify_ret >>

\* Only the first n bytes of the frame arrive.
TruncateFrame ==
    /\ packet_out # << >>
    /\ packet = packet_out
    /\ verify_ret = NoResult
    /\ \E n \in 0..(Len(packet) - 1) : packet' = SubSeq(packet, 1, n)
    /\ UNCHANGED << codecFrame, telemetry, status, packet_out, verify_ret >>

\* The first k - 1 bytes of the frame are lost.
DropFrameHead ==
    /\ packet_out # << >>
    /\ packet = packet_out
    /\ verify_ret = NoResult
    /\ \E k \in 2..Len(packet) : packet' = SubSeq(packet, k, Len(packet))
    /\ UNCHANGED << codecFrame, telemetry, status, packet_out, verify_ret >>

\* The bytes a damaged marker can arrive as.
MarkerBytes == {0, PROTOCOL_END_MARKER, PROTOCOL_START_MARKER, 255}

\* The start or the end marker arrives as another byte.
ChangeMarker ==
    /\ packet_out # << >>
    /\ packet = packet_out
    /\ verify_ret = NoResult
    /\ \E i \in {1, Len(packet)}, byte \in MarkerBytes :
            /\ byte # packet[i]
            /\ packet' = [packet EXCEPT ![i] = byte]
    /\ UNCHANGED << codecFrame, telemetry, status, packet_out, verify_ret >>

\* One bit of the CRC byte is inverted on the way.
FlipCrcBit ==
    /\ packet_out # << >>
    /\ packet = packet_out
    /\ verify_ret = NoResult
    /\ \E b \in 0..7 : packet' = [packet EXCEPT ![Len(packet) - 1] = Xor(@, 2 ^ b)]
    /\ UNCHANGED << codecFrame, telemetry, status, packet_out, verify_ret >>

\* The receiver calls protocol_verify_packet(packet, packet_len).
VerifyPacket ==
    /\ verify_ret = NoResult
    /\ verify_ret' = IF protocol_verify_packet(packet) THEN "true" ELSE "false"
    /\ UNCHANGED << codecFrame, telemetry, status, packet_out, packet >>

\* ------------------------------------------------------------ state_mutex
\* The timeout of every xSemaphoreTake(buffer_mutex, ...).
MUTEX_TIMEOUT_MS == 100

\* Everything the sensor task and the callers of fsm_set_state leave alone.
sensorFrame == << emergency_webhook_triggered, fsm_pc, event, fsm_ret, apply_state,
                  init_timer_active, door_timer_active, timerVars, hwVars,
                  webhook_triggers, testVars, agentVars, ringApiVars, ringTaskVars,
                  codecVars, mainVars, notifyVars >>

\* Mutant: the sensor's sends wait for room (portMAX_DELAY instead of 0).
SensorSendBlocks_Waits == TRUE

\* sensor_task passes 0 ticks to both xQueueSend calls: it never waits for room.
SensorSendBlocks == FALSE

\* sensor_task, lines 37-38: the ADC is read and converted.
SensorRead ==
    /\ sensor_pc = "read"
    /\ sensor_adc' = adc_reading
    /\ sensor_pc' = "alarm"
    /\ UNCHANGED << sensorFrame, current_state, fsmEventQueue, telemetryQueue,
                    adc_reading, state_mutex, sensor_state, sensor_waited, set_pc >>

\* sensor_task, lines 43-49: the CO_ALARM event is sent, with 0 ticks, when the
\* reading is at or above the threshold.
SensorSendAlarm ==
    /\ sensor_pc = "alarm"
    /\ (SensorSendBlocks /\ SensorAlarm(sensor_adc))
           => Len(fsmEventQueue) < QUEUE_SIZE_FSM_EVENT
    /\ fsmEventQueue' =
           IF SensorAlarm(sensor_adc)
           THEN xQueueSend(fsmEventQueue,
                           [type |-> EVENT_CO_ALARM, co_ppm |-> adc_to_co_ppm(sensor_adc)],
                           QUEUE_SIZE_FSM_EVENT)
           ELSE fsmEventQueue
    /\ sensor_pc' = "take"
    /\ UNCHANGED << sensorFrame, current_state, telemetryQueue, adc_reading,
                    state_mutex, sensor_adc, sensor_state, sensor_waited, set_pc >>

\* fsm_get_state, line 39: xSemaphoreTake(state_mutex, portMAX_DELAY) returns
\* once the mutex is free; the call has no timeout and no path for a failed take.
SensorTake ==
    /\ sensor_pc = "take"
    /\ state_mutex = NoTask
    /\ state_mutex' = "sensor"
    /\ sensor_pc' = "get"
    /\ UNCHANGED << sensorFrame, current_state, fsmEventQueue, telemetryQueue,
                    adc_reading, sensor_adc, sensor_state, sensor_waited, set_pc >>

\* Time passes while the sensor task is blocked in xSemaphoreTake.
SensorWait ==
    /\ sensor_pc = "take"
    /\ state_mutex # NoTask
    /\ sensor_waited < MaxWaitMs
    /\ sensor_waited' = Min(sensor_waited + WAIT_TICK_MS, MaxWaitMs)
    /\ UNCHANGED << sensorFrame, current_state, fsmEventQueue, telemetryQueue,
                    adc_reading, state_mutex, sensor_pc, sensor_adc, sensor_state,
                    set_pc >>

\* fsm_get_state, lines 40-42: the state is read and the mutex given back.
SensorGet ==
    /\ sensor_pc = "get"
    /\ sensor_state' = current_state
    /\ state_mutex' = NoTask
    /\ sensor_waited' = 0
    /\ sensor_pc' = "send"
    /\ UNCHANGED << sensorFrame, current_state, fsmEventQueue, telemetryQueue,
                    adc_reading, sensor_adc, set_pc >>

\* sensor_task, lines 54-62: the READING record is sent with 0 ticks.
SensorSendReading ==
    /\ sensor_pc = "send"
    /\ SensorSendBlocks => Len(telemetryQueue) < QUEUE_SIZE_TELEMETRY
    /\ telemetryQueue' =
           xQueueSend(telemetryQueue,
                      Telemetry("READING", adc_to_co_ppm(sensor_adc), sensor_state),
                      QUEUE_SIZE_TELEMETRY)
    /\ sensor_pc' = "delay"
    /\ UNCHANGED << sensorFrame, current_state, fsmEventQueue, adc_reading,
                    state_mutex, sensor_adc, sensor_state, sensor_waited, set_pc >>

\* sensor_task, line 65: vTaskDelay returns and the next cycle starts.
SensorDelay ==
    /\ sensor_pc = "delay"
    /\ sensor_pc' = "read"
    /\ UNCHANGED << sensorFrame, current_state, fsmEventQueue, telemetryQueue,
                    adc_reading, state_mutex, sensor_adc, sensor_state,
                    sensor_waited, set_pc >>

SensorStep ==
    \/ SensorRead
    \/ SensorSendAlarm
    \/ SensorTake
    \/ SensorGet
    \/ SensorSendReading
    \/ SensorDelay

\* fsm_set_state, line 47, called by the FSM task: the mutex is taken.  A
\* waiting sensor task, of higher priority, is given the mutex first.
SetTake ==
    /\ set_pc = "idle"
    /\ state_mutex = NoTask
    /\ sensor_pc # "take"
    /\ state_mutex' = "fsm"
    /\ set_pc' = "write"
    /\ UNCHANGED << sensorFrame, current_state, fsmEventQueue, telemetryQueue,
                    adc_reading, sensor_pc, sensor_adc, sensor_state, sensor_waited >>

\* fsm_set_state, line 48: current_state = new_state.
SetWrite ==
    /\ set_pc = "write"
    /\ current_state' \in {STATE_NORMAL, STATE_OPEN, STATE_EMERGENCY} \ {current_state}
    /\ set_pc' = "give"
    /\ UNCHANGED << sensorFrame, fsmEventQueue, telemetryQueue, adc_reading,
                    state_mutex, sensor_pc, sensor_adc, sensor_state, sensor_waited >>

\* fsm_set_state, line 49: xSemaphoreGive(state_mutex).
SetGive ==
    /\ set_pc = "give"
    /\ state_mutex' = NoTask
    /\ set_pc' = "idle"
    /\ UNCHANGED << sensorFrame, current_state, fsmEventQueue, telemetryQueue,
                    adc_reading, sensor_pc, sensor_adc, sensor_state, sensor_waited >>

\* fsm_task takes an event off its queue (xQueueReceive).
EventDequeue ==
    /\ fsmEventQueue # << >>
    /\ fsmEventQueue' = Tail(fsmEventQueue)
    /\ UNCHANGED << sensorFrame, current_state, telemetryQueue, adc_reading,
                    state_mutex, sensor_pc, sensor_adc, sensor_state,
                    sensor_waited, set_pc >>

\* ------------------------------------------------------------ commands, main loop, door task
MSG_TYPE_COMMAND == 16
DOOR_OPEN_MS == 5000
TEST_BEEP_MS == 500

\* No MQTT_EVENT_DATA is being handled.
NoData == << -1 >>

\* Command (TYPE 0x10, LEN 1): command_id(u8).  The frame passes
\* protocol_verify_packet, is of the command type and carries one payload byte.
protocol_decode_command(p) ==
    /\ protocol_verify_packet(p)
    /\ p[2] = MSG_TYPE_COMMAND
    /\ p[3] = 1
    /\ Len(p) = 6

\* *command_out of a decoded frame.
CommandId(p) == p[4]

\* Mutant: the switch takes every id as OPEN_DOOR.
CommandOf_DefaultOpensDoor(command_id) == { "CMD_OPEN_DOOR" }

\* parse_command's switch: the Command_t an id is mapped to.  0x04 is
\* CMD_OPEN_DOOR; 0x01, 0x02 and 0x03 are mapped to CMD_ARM, CMD_DISARM and
\* CMD_RESET, enumerators app_main's switch does not name: which of its cases
\* their values select depends on the enumeration the build is given.  Any other
\* id leaves the function (the empty set).
CommandOf(command_id) ==
    CASE command_id = 4 -> { "CMD_OPEN_DOOR" }
      [] command_id \in {1, 2, 3} ->
             { "CMD_START_EMER", "CMD_STOP_EMER", "CMD_TEST", "CMD_OTHER" }
      [] OTHER -> { }

CommandFrame(command_id) == FramedAs(MSG_TYPE_COMMAND, 1, << command_id >>)

\* What the broker delivers on the command topic: command frames with known and
\* unknown ids, a frame of another type, one with a wrong CRC and one without
\* its end marker.
CommandData ==
    { CommandFrame(id) : id \in {1, 4, 5} }
        \cup { FramedAs(MSG_TYPE_STATUS, 1, << 4 >>),
               [CommandFrame(4) EXCEPT ![5] = (@ + 1) % 256],
               SubSeq(CommandFrame(4), 1, 5) }

\* MQTT_EVENT_DATA on the command topic: mqtt_event_handler calls parse_command.
MqttData ==
    /\ command_data = NoData
    /\ command_data' \in CommandData
    /\ UNCHANGED << systemFrame, commandQueue, main_pc, main_elapsed, door_sem,
                    door_pc, door_task_elapsed >>

\* parse_command: a frame that does not decode, or an id the switch does not
\* know, ends the function; otherwise the command is sent to commandQueue, and
\* dropped when the queue stays full for the 100 ms of the send.
parse_command ==
    /\ command_data # NoData
    /\ command_data' = NoData
    /\ IF protocol_decode_command(command_data)
             /\ CommandOf(CommandId(command_data)) # { }
       THEN \E cmd \in CommandOf(CommandId(command_data)) :
                commandQueue' = xQueueSend(commandQueue, cmd, QUEUE_SIZE_COMMAND)
       ELSE UNCHANGED commandQueue
    /\ UNCHANGED << systemFrame, main_pc, main_elapsed, door_sem, door_pc,
                    door_task_elapsed >>

\* app_main's loop, lines 76-112: xQueueReceive(commandQueue, &cmd, 0) returns a
\* command and the switch handles it.
MainReceive ==
    /\ main_pc = "poll"
    /\ commandQueue # << >>
    /\ commandQueue' = Tail(commandQueue)
    /\ LET cmd == Head(commandQueue)
       IN  /\ fsmEventQueue' =
                  CASE cmd = "CMD_START_EMER" ->
                           xQueueSend(fsmEventQueue,
                                      [type |-> EVENT_CO_ALARM, co_ppm |-> 99900],
                                      QUEUE_SIZE_FSM_EVENT)
                    [] cmd = "CMD_STOP_EMER" ->
                           xQueueSend(fsmEventQueue,
                                      [type |-> EVENT_CMD_STOP_EMER, co_ppm |-> 0],
                                      QUEUE_SIZE_FSM_EVENT)
                    [] OTHER -> fsmEventQueue
           /\ buzzer_active' = IF cmd = "CMD_TEST" THEN TRUE ELSE buzzer_active
           /\ main_pc' = IF cmd = "CMD_TEST" THEN "test_delay" ELSE "poll"
           /\ door_sem' = IF cmd = "CMD_OPEN_DOOR" THEN TRUE ELSE door_sem
    /\ main_elapsed' = 0
    /\ UNCHANGED << fsmVars, timerVars, green_led, red_led, door_angle,
                    webhook_triggers, telemetryQueue, adc_reading, testVars,
                    agentVars, ringApiVars, ringTaskVars, codecVars, lockVars, notifyVars,
                    command_data, door_pc, door_task_elapsed >>

\* app_main, lines 102-103: the 500 ms are over, buzzer_set_active(false).
MainTestDone ==
    /\ main_pc = "test_delay"
    /\ main_elapsed >= TEST_BEEP_MS
    /\ buzzer_active' = FALSE
    /\ main_pc' = "poll"
    /\ main_elapsed' = 0
    /\ UNCHANGED << fsmVars, timerVars, green_led, red_led, door_angle,
                    fsmEventQueue, webhook_triggers, telemetryQueue, adc_reading,
                    testVars, agentVars, ringApiVars, ringTaskVars, codecVars,
                    lockVars, notifyVars, command_data, commandQueue, door_sem, door_pc,
                    door_task_elapsed >>

\* button_isr_handler: a debounced press gives door_sem.
button_isr_handler ==
    /\ ~door_sem
    /\ door_sem' = TRUE
    /\ UNCHANGED << systemFrame, command_data, commandQueue, main_pc, main_elapsed,
                    door_pc, door_task_elapsed >>

\* door_task, lines 56-60: the semaphore is taken and the door is set to 90.
DoorOpen ==
    /\ door_pc = "wait"
    /\ door_sem
    /\ door_sem' = FALSE
    /\ door_angle' = 90
    /\ door_pc' = "open"
    /\ door_task_elapsed' = 0
    /\ UNCHANGED << fsmVars, timerVars, green_led, red_led, buzzer_active,
                    fsmEventQueue, webhook_triggers, telemetryQueue, adc_reading,
                    testVars, agentVars, ringApiVars, ringTaskVars, codecVars,
                    lockVars, notifyVars, command_data, commandQueue, main_pc, main_elapsed >>

\* door_task, lines 60-63: DOOR_OPEN_MS later the door is set to 0.
DoorClose ==
    /\ door_pc = "open"
    /\ door_task_elapsed >= DOOR_OPEN_MS
    /\ door_angle' = 0
    /\ door_pc' = "wait"
    /\ door_task_elapsed' = 0
    /\ UNCHANGED << fsmVars, timerVars, green_led, red_led, buzzer_active,
                    fsmEventQueue, webhook_triggers, telemetryQueue, adc_reading,
                    testVars, agentVars, ringApiVars, ringTaskVars, codecVars,
                    lockVars, notifyVars, command_data, commandQueue, main_pc, main_elapsed,
                    door_sem >>

\* MAIN_TICK_MS pass for every running delay and timer.
MainTick ==
    /\ \/ (init_timer_active /\ init_elapsed < INIT_DURATION_MS)
       \/ (door_timer_active /\ door_elapsed < DOOR_OPEN_DURATION_MS)
       \/ (main_pc = "test_delay" /\ main_elapsed < TEST_BEEP_MS)
       \/ (door_pc = "open" /\ door_task_elapsed < DOOR_OPEN_MS)
    /\ init_elapsed' = IF init_timer_active
                       THEN Min(init_elapsed + MAIN_TICK_MS, INIT_DURATION_MS)
                       ELSE init_elapsed
    /\ door_elapsed' = IF door_timer_active
                       THEN Min(door_elapsed + MAIN_TICK_MS, DOOR_OPEN_DURATION_MS)
                       ELSE door_elapsed
    /\ main_elapsed' = IF main_pc = "test_delay"
                       THEN Min(main_elapsed + MAIN_TICK_MS, TEST_BEEP_MS)
                       ELSE main_elapsed
    /\ door_task_elapsed' = IF door_pc = "open"
                            THEN Min(door_task_elapsed + MAIN_TICK_MS, DOOR_OPEN_MS)
                            ELSE door_task_elapsed
    /\ UNCHANGED << fsmVars, hwVars, fsmEventQueue, webhook_triggers,
                    telemetryQueue, adc_reading, testVars, agentVars, ringApiVars,
                    ringTaskVars, codecVars, lockVars, notifyVars, command_data, commandQueue,
                    main_pc, door_sem, door_pc >>

\* ------------------------------------------------------------ agent_task.c and app_main on buffer_mutex
\* The holder of buffer_mutex while app_main's status log has it.
MainTask == "main"

RingCallFrame == << systemVars, next_stamp, ringVars, ring_pc, ring_ret, ring_out,
                   current_count, ringApiVars >>

\* app_main, line 120: the status log calls ring_buffer_count(), which takes
\* buffer_mutex (ring_buffer.c 185).
MainCountTake ==
    /\ buffer_mutex = NoTask
    /\ buffer_mutex' = MainTask
    /\ UNCHANGED RingCallFrame

\* ring_buffer_count in app_main, lines 186-187: count is read and the mutex is
\* given back.
MainCountGive ==
    /\ buffer_mutex = MainTask
    /\ buffer_mutex' = NoTask
    /\ UNCHANGED RingCallFrame

\* agent_task, top of the loop, when the lock of ring_buffer_count (if it is
\* called) is had.
AgentPollLocked ==
    /\ ReconnectDetected(mqtt_is_connected, was_connected) => buffer_mutex = NoTask
    /\ AgentPoll

\* agent_task, top of the loop on a reconnect: ring_buffer_count() does not get
\* the lock within MUTEX_TIMEOUT_MS and returns 0 (ring_buffer.c 183-190);
\* flush_ring_buffer returns at once (agent_task.c 90-93).
AgentCountTimeout ==
    /\ agent_pc = "poll"
    /\ ReconnectDetected(mqtt_is_connected, was_connected)
    /\ buffer_mutex # NoTask
    /\ is_connected' = mqtt_is_connected
    /\ agent_pc' = "recv"
    /\ UNCHANGED << fsmVars, timerVars, hwVars, fsmEventQueue, webhook_triggers,
                    telemetryQueue, adc_reading, testVars, unitVars, mqtt_connected,
                    was_connected, published, lost, taken_offline, publish_log,
                    next_stamp, ringVars >>

\* flush_ring_buffer, one turn of the while loop, when ring_buffer_pop has the
\* lock.
AgentFlushPopLocked ==
    /\ buffer_mutex = NoTask
    /\ AgentFlushPop

\* flush_ring_buffer: ring_buffer_pop does not get the lock and returns false
\* (ring_buffer.c 126-129); the while loop ends with the records still stored.
AgentPopTimeout ==
    /\ agent_pc = "flush"
    /\ buffer_mutex # NoTask
    /\ agent_pc' = "recv"
    /\ UNCHANGED << fsmVars, timerVars, hwVars, fsmEventQueue, webhook_triggers,
                    telemetryQueue, adc_reading, testVars, unitVars, mqtt_connected,
                    is_connected, was_connected, published, lost, taken_offline,
                    publish_log, next_stamp, ringVars >>

\* agent_task, step 2, when the lock of ring_buffer_push (if it is called) is
\* had.
AgentReceiveLocked ==
    /\ ~is_connected => buffer_mutex = NoTask
    /\ AgentReceive

\* agent_task, step 2, offline: ring_buffer_push does not get the lock and
\* returns false (ring_buffer.c 83-86); the return value is not looked at and the
\* record is gone.
AgentPushTimeout ==
    /\ agent_pc = "recv"
    /\ telemetryQueue # << >>
    /\ ~is_connected
    /\ buffer_mutex # NoTask
    /\ telemetryQueue' = Tail(telemetryQueue)
    /\ taken_offline' = IF mqtt_connected THEN taken_offline
                        ELSE taken_offline \cup {Head(telemetryQueue).timestamp}
    /\ was_connected' = is_connected
    /\ agent_pc' = "poll"
    /\ UNCHANGED << fsmVars, timerVars, hwVars, fsmEventQueue, webhook_triggers,
                    adc_reading, testVars, unitVars, mqtt_connected, is_connected,
                    published, lost, publish_log, next_stamp, ringVars >>

\* ------------------------------------------------------------ specification
\* After app_main has run agent_task_init and fsm_init: both queues exist and are
\* empty, the FSM task is created and has not run yet, no pin has been driven.
ProgramInit ==
    /\ current_state = STATE_INIT
    /\ emergency_webhook_triggered = FALSE
    /\ fsmEventQueue = << >>
    /\ fsm_pc = "start"
    /\ event = NoEvent
    /\ fsm_ret = "start"
    /\ apply_state = STATE_INIT
    /\ init_timer_active = FALSE
    /\ door_timer_active = FALSE
    /\ init_elapsed = 0
    /\ door_elapsed = 0
    /\ green_led = 0
    /\ red_led = 0
    /\ door_angle = 0
    /\ buzzer_active = FALSE
    /\ webhook_triggers = 0
    /\ telemetryQueue = << >>
    /\ adc_reading \in AdcValues
    /\ test_pc = [test |-> 0, step |-> 1]
    /\ test_elapsed = 0
    /\ test_results = [t \in 1..TestCount |-> "PENDING"]
    /\ mqtt_connected = FALSE
    /\ agent_pc = "poll"
    /\ is_connected = FALSE
    /\ was_connected = FALSE
    /\ published = << >>
    /\ lost = {}
    /\ taken_offline = {}
    /\ publish_log = << >>
    /\ next_stamp = 1
    /\ buffer = [i \in 0..(RING_BUFFER_SIZE - 1) |-> NoRecord]
    /\ head = 0
    /\ tail = 0
    /\ count = 0
    /\ ring_pc = [t \in RingTasks |-> "idle"]
    /\ ring_ret = [t \in RingTasks |-> NoResult]
    /\ ring_out = [t \in RingTasks |-> 0]
    /\ current_count = 0
    /\ ring_pushed = << >>
    /\ ring_popped = << >>
    /\ telemetry = NoTelemetry
    /\ status = NoStatus
    /\ packet_out = << >>
    /\ packet = << >>
    /\ verify_ret = NoResult
    /\ state_mutex = NoTask
    /\ sensor_pc = "read"
    /\ sensor_adc = 0
    /\ sensor_state = STATE_NORMAL
    /\ sensor_waited = 0
    /\ set_pc = "idle"
    /\ command_data = NoData
    /\ commandQueue = << >>
    /\ main_pc = "poll"
    /\ main_elapsed = 0
    /\ door_sem = FALSE
    /\ door_pc = "wait"
    /\ door_task_elapsed = 0
    /\ webhookQueue = NullQueue

\* app_main has run agent_task_init, which calls ring_buffer_init: the mutex
\* exists and is free.
Init == ProgramInit /\ buffer_mutex = NoTask

\* The ring buffer interface called before or after ring_buffer_init.
RingCallInit == ProgramInit /\ buffer_mutex \in {NullMutex, NoTask}

Next ==
    \/ FsmStart
    \/ FsmReceive
    \/ FsmTimeout
    \/ FsmTimers
    \/ FsmActuate
    \/ FsmEmit
    \/ Tick
    \/ SensorCycle
    \/ AdcChange
    \/ InjectEvent
    \/ AgentDequeue

Spec == Init /\ [][Next]_vars

\* The scheduling the code relies on: the FSM task and the tick run whenever they
\* can; the sensor task (highest priority, periodic) finds room in fsmEventQueue
\* again and again, because the FSM drains the queue faster than the rate-limited
\* producers fill it.  Nothing is assumed of the agent: it may stay busy with
\* network I/O for ever and never take a record off telemetryQueue.
FairSpec ==
    /\ Spec
    /\ WF_vars(FsmStep)
    /\ WF_vars(Tick)
    /\ SF_vars(SensorCycle /\ Len(fsmEventQueue) < QUEUE_SIZE_FSM_EVENT)

\* The FSM unit test: app_main of test_fsm.c starts the agent and the FSM, but
\* neither the sensor nor the MQTT client.
TestNext ==
    \/ FsmStart
    \/ FsmReceive
    \/ FsmTimeout
    \/ FsmTimers
    \/ FsmActuate
    \/ FsmEmit
    \/ TestTick
    \/ TestDelayDone
    \/ TestSend
    \/ TestAssert
    \/ AgentDequeue

TestSpec == Init /\ [][TestNext]_vars

\* The cloud sync agent with its producers and the MQTT link.
AgentNext ==
    \/ TelemetrySend
    \/ MqttConnect
    \/ MqttDisconnect
    \/ AgentPoll
    \/ AgentFlushPop
    \/ AgentReceive
    \/ AgentReceiveTimeout

AgentSpec == Init /\ [][AgentNext]_vars

\* The cloud sync agent and app_main's status log, which share buffer_mutex.
AgentLockNext ==
    \/ TelemetrySend
    \/ MqttConnect
    \/ MqttDisconnect
    \/ MainCountTake
    \/ MainCountGive
    \/ AgentPollLocked
    \/ AgentCountTimeout
    \/ AgentFlushPopLocked
    \/ AgentPopTimeout
    \/ AgentReceiveLocked
    \/ AgentPushTimeout
    \/ AgentReceiveTimeout

AgentLockSpec == Init /\ [][AgentLockNext]_vars

\* The ring buffer interface used by one caller after ring_buffer_init.
RingNext ==
    \/ RingPush
    \/ RingPop
    \/ RingClear

RingSpec == Init /\ [][RingNext]_vars

\* The ring buffer interface called from concurrent tasks.
RingTaskNext ==
    \E t \in RingTasks :
        \/ TaskTake(t)
        \/ TaskPushEvict(t)
        \/ TaskPushWrite(t)
        \/ TaskPopCheck(t)
        \/ TaskPopCopy(t)
        \/ TaskRead(t)
        \/ TaskClear(t)
        \/ TaskGive(t)
        \/ TaskInitMutex(t)
        \/ TaskInitReset(t)
        \/ TaskRejected(t)
        \/ TaskTakeTimeout(t)
        \/ TaskReadUnlocked(t)

RingTaskSpec == Init /\ [][RingTaskNext]_vars

RingCallSpec == RingCallInit /\ [][RingTaskNext]_vars

\* The encoders of protocol.c, a frame in transit and protocol_verify_packet.
CodecNext ==
    \/ EncodeTelemetry
    \/ EncodeEvent
    \/ EncodeStatus
    \/ FlipPayloadBit

CodecSpec == Init /\ [][CodecNext]_vars

\* The encoders, a line that damages frames, and the receiver's check.
VerifyNext ==
    \/ EncodeTelemetry
    \/ EncodeEvent
    \/ EncodeStatus
    \/ FlipPayloadBit
    \/ TruncateFrame
    \/ DropFrameHead
    \/ ChangeMarker
    \/ FlipCrcBit
    \/ VerifyPacket

VerifySpec == Init /\ [][VerifyNext]_vars

\* The FSM task with the command path, app_main's loop and the door task.
MainNext ==
    \/ FsmStart
    \/ FsmReceive
    \/ FsmTimeout
    \/ FsmTimers
    \/ FsmActuate
    \/ FsmEmit
    \/ MainTick
    \/ MqttData
    \/ parse_command
    \/ MainReceive
    \/ MainTestDone
    \/ button_isr_handler
    \/ DoorOpen
    \/ DoorClose

\* The sensor task is left out: the ADC input is held at one value.
MainInit == Init /\ adc_reading = 2047

MainSpec == MainInit /\ [][MainNext]_vars

\* The sensor task step by step, with the FSM task's use of state_mutex, the
\* consumers of the two channels and the CO level.
LockNext ==
    \/ SensorStep
    \/ SensorWait
    \/ SetTake
    \/ SetWrite
    \/ SetGive
    \/ EventDequeue
    \/ AgentDequeue
    \/ AdcChange

LockSpec == Init /\ [][LockNext]_vars

\* The sensor task runs whenever it is ready (it has the highest priority), and
\* the holder of state_mutex runs to the end of its critical section (it
\* inherits the priority of the task waiting).  Nothing is assumed of the
\* consumers of the two channels.
LockFairSpec ==
    /\ LockSpec
    /\ WF_vars(SensorStep)
    /\ WF_vars(SetWrite \/ SetGive)

\* ------------------------------------------------------------ claims
\* The FSM takes an event of the given type off its queue in this step.
Processes(type) ==
    /\ fsm_pc = "recv"
    /\ fsmEventQueue # << >>
    /\ Head(fsmEventQueue).type = type
    /\ fsm_pc' # "recv"

\* apply_state_config returns in this step, having been called for `state`.
Applied(state) == fsm_pc = "emit" /\ fsm_pc' # "emit" /\ apply_state = state

\* The reading the sensor would take now is at or above the sensor threshold.
ReadingAtAlarm == adc_reading \in {a \in AdcValues : SensorAlarm(a)}
InEmergency == current_state = STATE_EMERGENCY

\* C1: if the sensor reading stays at or above the sensor threshold, the FSM is in
\* Emergency again and again, whatever the agent does with the telemetry channel
\* (it may never take a record off it).
C1_AlarmNeverStarved == (<>[]ReadingAtAlarm) => []<>InEmergency

\* C1 witness: the reading is at the threshold, the telemetry channel is full and
\* the FSM has entered Emergency on the sensor's CO_ALARM.
C1_Witness ==
    /\ SensorAlarm(adc_reading)
    /\ Len(telemetryQueue) = QUEUE_SIZE_TELEMETRY
    /\ current_state = STATE_EMERGENCY
    /\ event = [type |-> EVENT_CO_ALARM, co_ppm |-> adc_to_co_ppm(adc_reading)]
    /\ fsm_pc = "timers"

\* C2: a step that takes the FSM out of Emergency is the processing of a
\* CMD_STOP_EMER event, and it leads to Normal; no other event and no timer does.
C2_EmergencyUntilStop ==
    [][ (current_state = STATE_EMERGENCY /\ current_state' # STATE_EMERGENCY)
            => (Processes(EVENT_CMD_STOP_EMER) /\ current_state' = STATE_NORMAL) ]_vars

\* C2 witness: a ButtonPress has been processed in Emergency and the state is
\* still Emergency.
C2_Witness ==
    /\ current_state = STATE_EMERGENCY
    /\ event.type = EVENT_BUTTON_PRESS
    /\ fsm_pc = "timers"

\* C3: processing CoAlarm in Normal moves the FSM to Emergency with the latch
\* clear, and the apply_state_config call of that transition issues exactly one
\* trigger; processing CoAlarm in Emergency changes nothing and issues none; no
\* other step issues a trigger.
C3_OneTriggerPerAlarm ==
    [][ /\ (Processes(EVENT_CO_ALARM) /\ current_state = STATE_NORMAL)
             => /\ current_state' = STATE_EMERGENCY
                /\ fsm_pc' = "actuate"
                /\ apply_state' = STATE_EMERGENCY
                /\ ~emergency_webhook_triggered'
                /\ webhook_triggers' = webhook_triggers
        /\ (Applied(STATE_EMERGENCY) /\ ~emergency_webhook_triggered)
             => /\ webhook_triggers' = (webhook_triggers + 1) % TriggerWrap
                /\ emergency_webhook_triggered'
        /\ (Processes(EVENT_CO_ALARM) /\ current_state = STATE_EMERGENCY)
             => /\ current_state' = STATE_EMERGENCY
                /\ fsm_pc' = "timers"
                /\ webhook_triggers' = webhook_triggers
        /\ (webhook_triggers' # webhook_triggers) => Applied(STATE_EMERGENCY)
      ]_vars

\* C3 witness: a second CoAlarm has been processed in Emergency after the one
\* trigger of the episode.
C3_Witness ==
    /\ current_state = STATE_EMERGENCY
    /\ event.type = EVENT_CO_ALARM
    /\ fsm_pc = "timers"
    /\ fsm_ret = "event"
    /\ webhook_triggers = 1
    /\ emergency_webhook_triggered
    /\ door_angle = ConfigDoor(STATE_EMERGENCY)

\* C4: processing CMD_STOP_EMER in Emergency moves the FSM to Normal, whose
\* apply_state_config call clears the latch; so every later entry into Emergency
\* finds the latch clear and its apply_state_config call issues a new trigger.
C4_StopResetsLatch ==
    [][ /\ (Processes(EVENT_CMD_STOP_EMER) /\ current_state = STATE_EMERGENCY)
             => /\ current_state' = STATE_NORMAL
                /\ fsm_pc' = "actuate"
                /\ apply_state' = STATE_NORMAL
        /\ Applied(STATE_NORMAL) => ~emergency_webhook_triggered'
        /\ Applied(STATE_EMERGENCY)
             => /\ ~emergency_webhook_triggered
                /\ webhook_triggers' = (webhook_triggers + 1) % TriggerWrap
      ]_vars

\* C4 witness: a second emergency episode, entered after a CMD_STOP_EMER, has
\* issued its own trigger.
C4_Witness ==
    /\ current_state = STATE_EMERGENCY
    /\ webhook_triggers = 2
    /\ emergency_webhook_triggered
    /\ fsm_pc = "timers"

\* The FSM task evaluates its two timers in this step (fsm_task lines 233-253).
TimersStep == fsm_pc = "timers" /\ fsm_pc' # "timers"

\* The FSM is in Init, respectively Open, and no event is pending.
InitAndIdle == current_state = STATE_INIT /\ fsmEventQueue = << >>
OpenAndIdle == current_state = STATE_OPEN /\ fsmEventQueue = << >>

\* C5: when the FSM task evaluates its timers in Init it moves to Normal exactly
\* when init-duration has elapsed; ButtonPress in Normal leads to Open, where the
\* open timer starts at zero; when it evaluates its timers in Open it moves to
\* Normal exactly when open-duration has elapsed; and with no events pending it
\* stays neither in Init nor in Open for ever.
C5_TimedTransitions ==
    /\ [][ /\ (TimersStep /\ current_state = STATE_INIT)
                => current_state' = IF init_elapsed >= INIT_DURATION_MS
                                    THEN STATE_NORMAL ELSE STATE_INIT
           /\ (Processes(EVENT_BUTTON_PRESS) /\ current_state = STATE_NORMAL)
                => current_state' = STATE_OPEN
           /\ Applied(STATE_OPEN)
                => (door_timer_active' /\ door_elapsed' = 0)
           /\ (TimersStep /\ current_state = STATE_OPEN)
                => current_state' = IF door_elapsed >= DOOR_OPEN_DURATION_MS
                                    THEN STATE_NORMAL ELSE STATE_OPEN
         ]_vars
    /\ []<>~InitAndIdle
    /\ []<>~OpenAndIdle

\* C5 witness: the open timer has expired after a ButtonPress and the FSM is
\* applying the Normal configuration.
C5_Witness ==
    /\ current_state = STATE_NORMAL
    /\ fsm_pc = "emit"
    /\ fsm_ret = "timer"
    /\ door_angle = ConfigDoor(STATE_NORMAL)
    /\ door_timer_active
    /\ door_elapsed = DOOR_OPEN_DURATION_MS

\* C6: once app_main's 500 ms settling delay is over and test_initial_state runs,
\* fsm_get_state() reports Normal.
C6_NormalAfterSettle ==
    (test_pc.test = 1) => fsm_get_state = STATE_NORMAL

\* A transition is under way: fsm_set_state has been called for it and the
\* apply_state_config call that carries it out has not returned.
MidTransition == fsm_pc \in {"actuate", "emit"} /\ fsm_ret # "start"

\* C7: no sensor cycle (which calls fsm_get_state) runs while a transition is
\* under way, so no reader sees a state whose transition is half applied.
C7_AtomicTransitions == [][ SensorCycle => ~MidTransition ]_vars

\* What apply_state_config(state) leaves on the four actuators.
ActuatorsShow(state) ==
    /\ green_led = ConfigGreen(state)
    /\ red_led = ConfigRed(state)
    /\ door_angle = ConfigDoor(state)
    /\ buzzer_active = ConfigBuzzer(state)

C9_RecordBeforeActuation ==
    (MidTransition /\ ActuatorsShow(apply_state)) => fsm_pc # "emit"

\* The timestamps in a sequence grow strictly.
Increasing(stamps) ==
    \A i, j \in 1..Len(stamps) : i < j => stamps[i] < stamps[j]

\* C10: of at most RING_BUFFER_SIZE records taken off the telemetry channel while
\* the link was down, each is still held in the ring buffer or has been published,
\* and the records are published oldest first, every buffered record being older
\* than any record still to be taken.
C10_OutageRecordsPublished ==
    (Cardinality(taken_offline) <= RING_BUFFER_SIZE)
        => /\ \A t \in taken_offline :
                  \/ \E i \in 1..count : RingStamps[i] = t
                  \/ \E i \in 1..Len(published) : published[i] = t
           /\ Increasing(published \o RingStamps
                           \o [i \in 1..Len(telemetryQueue) |-> telemetryQueue[i].timestamp])

\* C11: a record leaves the ring buffer only by being accepted by the publish
\* interface (link up), or as the oldest record overwritten by a push on a full
\* buffer; so no buffered record is lost across outages.
C11_NoBufferedRecordLost ==
    [][ \A i \in 1..count :
            (\A j \in 1..count' : RingStamps'[j] # RingStamps[i])
                => \/ published' = Append(published, RingStamps[i])
                   \/ (i = 1 /\ count = RING_BUFFER_SIZE /\ count' = RING_BUFFER_SIZE)
      ]_vars

\* The last n elements of a sequence.
LastN(seq, n) == SubSeq(seq, Len(seq) - n + 1, Len(seq))

\* C12: once more than RING_BUFFER_SIZE records have been pushed and none popped,
\* count is RING_BUFFER_SIZE and the buffer holds exactly the RING_BUFFER_SIZE most
\* recently pushed records in push order.
C12_KeepsMostRecent ==
    (ring_popped = << >> /\ Len(ring_pushed) > RING_BUFFER_SIZE)
        => /\ count = RING_BUFFER_SIZE
           /\ RingStamps = LastN(ring_pushed, RING_BUFFER_SIZE)

\* C12 witness: two pushes beyond the capacity, so the buffer has wrapped and the
\* two oldest records have been overwritten.
C12_Witness ==
    /\ ring_popped = << >>
    /\ Len(ring_pushed) = RING_BUFFER_SIZE + 2
    /\ count = RING_BUFFER_SIZE
    /\ tail # 0

\* C13: every successful pop (a step that takes one record out and is no clear)
\* hands out the oldest record in the buffer and leaves
\* the others in place; the buffer always holds the most recently pushed records
\* that were not popped, in push order; so the records come out in push order.
C13_PopInPushOrder ==
    /\ [][ (count' = count - 1 /\ count > 0 /\ ring_pushed' = ring_pushed)
              => /\ ring_popped' = Append(ring_popped, RingStamps[1])
                 /\ RingStamps' = Tail(RingStamps)
         ]_vars
    /\ [](/\ count <= Len(ring_pushed)
          /\ RingStamps = LastN(ring_pushed, count)
          /\ Increasing(ring_popped \o RingStamps))

\* C13 witness: after an overflow eviction, pops interleaved with pushes have
\* handed out two records and a record pushed after the first pop is buffered.
C13_Witness ==
    /\ Len(ring_pushed) = MaxPushes
    /\ Len(ring_popped) = 2
    /\ ring_popped[1] > 1
    /\ count > 0
    /\ RingStamps[count] = MaxPushes
    /\ ring_popped[2] < MaxPushes - 1

\* C14: count stays in 0..RING_BUFFER_SIZE and head and tail in
\* 0..RING_BUFFER_SIZE-1, and a step that modifies head, tail or count is a step
\* of the task that holds buffer_mutex.
C14_LockedAndInRange ==
    /\ [](/\ count \in 0..RING_BUFFER_SIZE
          /\ head \in 0..(RING_BUFFER_SIZE - 1)
          /\ tail \in 0..(RING_BUFFER_SIZE - 1))
    /\ [][ (head' # head \/ tail' # tail \/ count' # count)
              => \E t \in RingTasks : ring_pc'[t] # ring_pc[t] /\ buffer_mutex = t
         ]_vars

\* C15: decoding the frame protocol_encode_telemetry produced for a record gives
\* back the record's timestamp, state, alarm_active and door_open exactly, and
\* a co_ppm that differs from the record's by at most 0.01 ppm.
C15_RoundTrip ==
    (packet_out # << >> /\ packet_out[2] = MSG_TYPE_TELEMETRY)
        => LET decoded == protocol_decode_telemetry(packet_out)
               error == decoded.co_ppm - telemetry.co_ppm
           IN  /\ decoded.timestamp = telemetry.timestamp
               /\ decoded.state = telemetry.state
               /\ decoded.alarm_active = telemetry.alarm_active
               /\ decoded.door_open = telemetry.door_open
               /\ error * 100 <= Thousandths(1)
               /\ error * 100 >= 0 - Thousandths(1)

\* A telemetry frame of a record whose co_ppm is not a whole number of
\* hundredths, whose timestamp has four different bytes and whose two flags
\* differ, has been encoded.
C15_Witness ==
    /\ packet_out # << >>
    /\ packet_out[2] = MSG_TYPE_TELEMETRY
    /\ telemetry.co_ppm = 45679
    /\ protocol_decode_telemetry(packet_out).co_ppm = 45670
    /\ telemetry.timestamp = 305419896
    /\ telemetry.alarm_active
    /\ ~telemetry.door_open
    /\ telemetry.state = 2

\* C16: a frame produced by any of the three encoders, with one bit of one
\* payload byte inverted, is rejected by protocol_verify_packet.
C16_BitFlipRejected ==
    (packet_out # << >> /\ packet # packet_out) => ~protocol_verify_packet(packet)

\* An event frame that verifies as encoded has reached the receiver with the
\* top bit of its last payload byte inverted.
C16_Witness ==
    /\ packet_out # << >>
    /\ packet_out[2] = MSG_TYPE_EVENT
    /\ protocol_verify_packet(packet_out)
    /\ Len(packet) = Len(packet_out)
    /\ packet[Len(packet) - 2] = packet_out[Len(packet) - 2] + 128
    /\ \A i \in 1..Len(packet) : i # Len(packet) - 2 => packet[i] = packet_out[i]

\* C17: whenever the FSM takes an event off its queue and handles it, the state
\* it is in after handle_event is the transition table's: CoAlarm leads to
\* Emergency from Init, Normal and Open whatever its ppm; ButtonPress leads from
\* Normal to Open; CmdStopEmergency leads from Emergency to Normal; every other
\* pair of state and event leaves the state as it was.
C17_TransitionTable ==
    [][ (fsm_pc = "recv" /\ fsmEventQueue # << >> /\ fsm_pc' # "recv")
            => LET type == Head(fsmEventQueue).type
               IN  current_state' =
                       IF /\ type = EVENT_CO_ALARM
                          /\ current_state \in {STATE_INIT, STATE_NORMAL, STATE_OPEN}
                       THEN STATE_EMERGENCY
                       ELSE IF type = EVENT_BUTTON_PRESS /\ current_state = STATE_NORMAL
                       THEN STATE_OPEN
                       ELSE IF /\ type = EVENT_CMD_STOP_EMER
                               /\ current_state = STATE_EMERGENCY
                       THEN STATE_NORMAL
                       ELSE current_state ]_vars

\* A CoAlarm has been handled while the door timer of Open was running: the
\* state is Emergency and apply_state_config is about to run for it.
C17_Witness ==
    /\ current_state = STATE_EMERGENCY
    /\ event.type = EVENT_CO_ALARM
    /\ fsm_pc = "actuate"
    /\ fsm_ret = "event"
    /\ door_timer_active
    /\ door_angle = ConfigDoor(STATE_OPEN)
    /\ green_led = ConfigGreen(STATE_OPEN)
    /\ red_led = ConfigRed(STATE_OPEN)

\* C18: handling a ButtonPress while in Open leaves the state Open and changes
\* nothing else: not the latch, the actuators, the records sent, the triggers
\* issued, nor the door timer and the time already run on it, so the pending
\* auto-close still falls DOOR_OPEN_DURATION_MS after Open was entered.
C18_ButtonInOpenIsNoOp ==
    [][ (Processes(EVENT_BUTTON_PRESS) /\ current_state = STATE_OPEN)
            => /\ current_state' = STATE_OPEN
               /\ UNCHANGED << emergency_webhook_triggered, hwVars, telemetryQueue,
                               webhook_triggers, init_timer_active >>
               /\ door_timer_active' = door_timer_active
               /\ door_elapsed' = door_elapsed ]_vars

\* C19: a trigger is issued only by the apply_state_config call of an entry into
\* Emergency, with the latch clear, and that call sets the latch; the latch is
\* cleared only by the apply_state_config call of a transition to Normal.  So
\* between two triggers the FSM has gone to Normal, and, outside a running
\* apply_state_config call, the latch is set exactly when the state is Emergency;
\* during a call that configures another state than Normal it is clear.
C19_LatchFollowsEpisode ==
    /\ [][ /\ (webhook_triggers' # webhook_triggers)
                => /\ Applied(STATE_EMERGENCY)
                   /\ current_state = STATE_EMERGENCY
                   /\ ~emergency_webhook_triggered
                   /\ emergency_webhook_triggered'
           /\ (emergency_webhook_triggered /\ ~emergency_webhook_triggered')
                => /\ Applied(STATE_NORMAL)
                   /\ current_state = STATE_NORMAL
         ]_vars
    /\ [](fsm_pc \notin {"actuate", "emit"}
            => (emergency_webhook_triggered <=> current_state = STATE_EMERGENCY))
    /\ []((fsm_pc \in {"actuate", "emit"} /\ apply_state # STATE_NORMAL)
            => ~emergency_webhook_triggered)

\* Two emergency episodes have each issued their trigger and been ended by a
\* transition to Normal, which cleared the latch.
C19_Witness ==
    /\ current_state = STATE_NORMAL
    /\ fsm_pc = "recv"
    /\ ~emergency_webhook_triggered
    /\ webhook_triggers = 2
    /\ buzzer_active = ConfigBuzzer(STATE_NORMAL)

\* C20: the FSM's event queue changes only by an accepted event joining its end
\* or by fsm_task taking the event at its front; the event taken is the one
\* handle_event is then called with, once; and fsm_task handles no event it did
\* not take off the queue.  So events are handled in the order they were
\* accepted, none skipped, duplicated or reordered.
C20_HandledInOrderOnce ==
    [][ /\ (fsmEventQueue' # fsmEventQueue)
             => \/ /\ Len(fsmEventQueue') = Len(fsmEventQueue) + 1
                   /\ Len(fsmEventQueue') <= QUEUE_SIZE_FSM_EVENT
                   /\ SubSeq(fsmEventQueue', 1, Len(fsmEventQueue)) = fsmEventQueue
                   /\ UNCHANGED << fsm_pc, event, current_state >>
                \/ /\ fsmEventQueue # << >>
                   /\ fsmEventQueue' = Tail(fsmEventQueue)
                   /\ fsm_pc = "recv"
                   /\ fsm_pc' # "recv"
                   /\ event' = Head(fsmEventQueue)
                   /\ current_state' = NextState(current_state, event'.type)
        /\ (fsm_pc = "recv" /\ fsm_pc' # "recv" /\ fsmEventQueue # << >>)
             => fsmEventQueue' = Tail(fsmEventQueue)
        /\ (event' # event /\ event' # NoEvent)
             => (fsmEventQueue # << >> /\ fsmEventQueue' = Tail(fsmEventQueue))
      ]_vars

\* Two events were accepted, a ButtonPress and then a CmdStopEmergency: the
\* first has been taken and handled (Normal to Open) and the second is now at
\* the front of the queue.
C20_Witness ==
    /\ event.type = EVENT_BUTTON_PRESS
    /\ current_state = STATE_OPEN
    /\ fsm_pc = "actuate"
    /\ fsm_ret = "event"
    /\ Len(fsmEventQueue) = 1
    /\ Head(fsmEventQueue).type = EVENT_CMD_STOP_EMER

\* C21: handling an event the current state has no transition for (CmdTest in
\* any state among them) leaves the state, both timers and the time run on
\* them, and the latch as they were, sends no record and issues no trigger, and
\* fsm_task goes on with its loop.
C21_UnexpectedEventDropped ==
    [][ \A e \in InjectedEvents :
            (Processes(e.type) /\ NextState(current_state, e.type) = current_state)
                => /\ current_state' = current_state
                   /\ UNCHANGED << emergency_webhook_triggered, telemetryQueue,
                                   webhook_triggers, hwVars >>
                   /\ init_timer_active' = init_timer_active
                   /\ door_timer_active' = door_timer_active
                   /\ init_elapsed' = init_elapsed
                   /\ door_elapsed' = door_elapsed
                   /\ fsm_pc' = "timers" ]_vars

\* C22: a sampling cycle of the sensor task makes one attempt to put one record
\* on the telemetry channel, tagged "READING" and carrying the reading (the
\* record joins the end when there is room, the channel is unchanged when
\* full); and it makes an attempt to put a CoAlarm event carrying the reading on
\* the FSM channel exactly when the reading is at or above the threshold of 100
\* ppm.
C22_OneReadingAlarmIffAbove ==
    [][ SensorCycle =>
            LET reading == adc_to_co_ppm(adc_reading)
                above == reading >= CO_THRESHOLD_SENSOR_PPM * 100
            IN  /\ IF Len(telemetryQueue) < QUEUE_SIZE_TELEMETRY
                   THEN /\ Len(telemetryQueue') = Len(telemetryQueue) + 1
                        /\ SubSeq(telemetryQueue', 1, Len(telemetryQueue)) = telemetryQueue
                        /\ telemetryQueue'[Len(telemetryQueue')].event = "READING"
                        /\ telemetryQueue'[Len(telemetryQueue')].co_ppm = reading
                   ELSE telemetryQueue' = telemetryQueue
                /\ IF above /\ Len(fsmEventQueue) < QUEUE_SIZE_FSM_EVENT
                   THEN fsmEventQueue' =
                            Append(fsmEventQueue,
                                   [type |-> EVENT_CO_ALARM, co_ppm |-> reading])
                   ELSE fsmEventQueue' = fsmEventQueue ]_vars

\* A cycle at the first ADC value above the threshold has put its CoAlarm at
\* the front of the FSM channel and its READING record on the telemetry channel.
C22_Witness ==
    /\ adc_reading = 2048
    /\ fsmEventQueue # << >>
    /\ Head(fsmEventQueue) = [type |-> EVENT_CO_ALARM, co_ppm |-> adc_to_co_ppm(2048)]
    /\ telemetryQueue # << >>
    /\ Head(telemetryQueue).event = "READING"
    /\ Head(telemetryQueue).co_ppm = adc_to_co_ppm(2048)

\* C23: the sensor task never waits on a consumer.  A send on a full FSM event
\* channel or a full telemetry channel leaves the channel as it is (the event
\* or record is dropped) and the loop moves on; and every cycle reaches its
\* vTaskDelay, whatever the consumers of the two channels do.
C23_SensorNeverBlocks ==
    /\ [][ /\ (SensorSendAlarm /\ Len(fsmEventQueue) = QUEUE_SIZE_FSM_EVENT)
                 => (fsmEventQueue' = fsmEventQueue /\ sensor_pc' = "take")
           /\ (SensorSendReading /\ Len(telemetryQueue) = QUEUE_SIZE_TELEMETRY)
                 => (telemetryQueue' = telemetryQueue /\ sensor_pc' = "delay")
         ]_vars
    /\ [](sensor_pc = "alarm" /\ Len(fsmEventQueue) = QUEUE_SIZE_FSM_EVENT
            => ENABLED SensorSendAlarm)
    /\ [](sensor_pc = "send" /\ Len(telemetryQueue) = QUEUE_SIZE_TELEMETRY
            => ENABLED SensorSendReading)
    /\ (sensor_pc = "read" ~> sensor_pc = "delay")

\* A cycle that read an alarming level has reached its delay with both channels
\* full, the telemetry channel still holding the record of an earlier cycle at
\* another level: this cycle's record was dropped.
C23_Witness ==
    /\ sensor_pc = "delay"
    /\ sensor_adc = 2048
    /\ Len(fsmEventQueue) = QUEUE_SIZE_FSM_EVENT
    /\ Len(telemetryQueue) = QUEUE_SIZE_TELEMETRY
    /\ Head(telemetryQueue).co_ppm = adc_to_co_ppm(2047)

\* C24: no task waits at a lock acquisition for longer than the timeout the
\* lock operations carry (MUTEX_TIMEOUT_MS): the wait ends by then, with the
\* lock or with the fallback.
C24_EveryWaitBounded == sensor_waited <= MUTEX_TIMEOUT_MS

\* C25: when the agent takes a record off its channel with the sampled link
\* status connected, it hands mqtt_publish_raw the record's telemetry packet and
\* then, exactly when the tag is not "READING", its event packet, and the ring
\* buffer is untouched; with the sampled status disconnected it pushes the
\* record into the ring buffer and hands nothing to mqtt_publish_raw.
C25_PublishOrBuffer ==
    [][ (agent_pc = "recv" /\ telemetryQueue # << >> /\ agent_pc' = "poll")
            => LET data == Head(telemetryQueue)
                   telemetry_packet == [type |-> "TELEMETRY", timestamp |-> data.timestamp]
                   event_packet == [type |-> "EVENT", timestamp |-> data.timestamp]
               IN  IF is_connected
                   THEN /\ publish_log' = IF data.event = "READING"
                                           THEN << telemetry_packet >>
                                           ELSE << telemetry_packet, event_packet >>
                        /\ UNCHANGED ringVars
                   ELSE /\ buffer'[head] = data
                        /\ head' = (head + 1) % RING_BUFFER_SIZE
                        /\ count' = Min(count + 1, RING_BUFFER_SIZE)
                        /\ UNCHANGED << publish_log, published, lost >> ]_vars

\* A record tagged by the FSM has been taken with the link up, and both of its
\* packets were handed over.
C25_Witness ==
    /\ agent_pc = "poll"
    /\ Len(publish_log) = 2
    /\ publish_log[1].type = "TELEMETRY"
    /\ publish_log[2].type = "EVENT"
    /\ published # << >>
    /\ publish_log[2].timestamp = published[Len(published)]

\* C26: a ring buffer call that reports failure changes nothing.  The step on
\* which a push or pop returns false (null item, missing mutex, lock timeout,
\* pop on an empty buffer) leaves buffer, head, tail and count as they were and
\* does not write the caller's item; every step of a push or pop that does
\* change them belongs to a call that returns true; and the give that ends a
\* failed pop changes none of them either.
RingData == << buffer, head, tail, count >>
TaskSteps(t) == ring_pc'[t] # ring_pc[t] \/ ring_ret'[t] # ring_ret[t]
C26_FailedCallChangesNothing ==
    [][\A t \in RingTasks :
          /\ (ring_ret'[t] = "false" /\ ring_ret[t] # "false")
                => (UNCHANGED RingData /\ ring_out'[t] = ring_out[t])
          /\ (/\ TaskSteps(t)
              /\ ring_pc[t] \notin {"clear", "init_reset"}
              /\ (RingData' # RingData \/ ring_out'[t] # ring_out[t]))
                => (/\ ring_pc[t] \in {"push_check", "push_write", "pop_copy"}
                    /\ ring_ret'[t] # "false"
                    /\ ring_pc[t] = "push_check" => ring_pc'[t] = "push_write"
                    /\ ring_pc[t] # "push_check" => ring_ret'[t] = "true")
          /\ (TaskSteps(t) /\ ring_pc[t] = "give")
                => (/\ UNCHANGED RingData
                    /\ ring_out'[t] = ring_out[t]
                    /\ ring_ret'[t] = ring_ret[t])
      ]_vars

\* A pop by A has failed on an empty buffer whose tail slot still holds an old
\* record, different from the one A popped before, and B's call has failed while
\* A holds the lock.
C26_Witness ==
    /\ ring_pc["A"] = "give"
    /\ ring_ret["A"] = "false"
    /\ count = 0
    /\ ring_out["A"] # 0
    /\ buffer[tail].timestamp \notin {0, ring_out["A"]}
    /\ buffer_mutex = "A"
    /\ ring_pc["B"] = "idle"
    /\ ring_ret["B"] = "false"

\* C27: the frame protocol_encode_telemetry writes is exactly 16 bytes: 0xAA,
\* TYPE 0x01, LEN 11, the timestamp in 4 big-endian bytes, the fixed-point CO
\* value in 2 big-endian bytes, a flags byte with bit 1 = alarm_active, bit 2 =
\* door_open and every other bit 0, the state byte, three zero bytes, the CRC8
\* of TYPE, LEN and the payload (START and END left out), and 0x55.
TelemetryEncoded == packet_out # << >> /\ packet_out[2] = MSG_TYPE_TELEMETRY
C27_TelemetryFrameLayout ==
    TelemetryEncoded =>
        /\ Len(packet_out) = 16
        /\ packet_out[1] = 170
        /\ packet_out[2] = 1
        /\ packet_out[3] = 11
        /\ \A i \in 1..16 : packet_out[i] \in 0..255
        /\ packet_out[4] * 16777216 + packet_out[5] * 65536
                + packet_out[6] * 256 + packet_out[7] = telemetry.timestamp
        /\ packet_out[8] * 256 + packet_out[9] = float_to_fixed16(telemetry.co_ppm)
        /\ (packet_out[10] \div 2) % 2 = (IF telemetry.alarm_active THEN 1 ELSE 0)
        /\ (packet_out[10] \div 4) % 2 = (IF telemetry.door_open THEN 1 ELSE 0)
        /\ packet_out[10] % 2 = 0
        /\ packet_out[10] \div 8 = 0
        /\ packet_out[11] = telemetry.state
        /\ packet_out[12] = 0 /\ packet_out[13] = 0 /\ packet_out[14] = 0
        /\ packet_out[15] = crc8_calculate(SubSeq(packet_out, 2, 14))
        /\ packet_out[16] = 85

\* A record with both flags set, a timestamp of four different bytes and a CO
\* value above 255 hundredths has been encoded.
C27_Witness ==
    /\ TelemetryEncoded
    /\ telemetry.alarm_active
    /\ telemetry.door_open
    /\ telemetry.timestamp = 16909060
    /\ telemetry.co_ppm = 45679
    /\ telemetry.state = 2

\* C28: for a record whose tag is at most 16 bytes protocol_encode_event
\* produces a frame: its name-length byte is the tag's length, at most 16, its
\* LEN byte is 11 + that length and is the number of payload bytes written; and
\* every frame an encoder writes (telemetry, event, status) is at most 64 bytes,
\* the size of the callers' output buffers.
EventEncoded == packet_out # << >> /\ packet_out[2] = MSG_TYPE_EVENT
C28_FramesFitBuffer ==
    /\ (EventEncoded /\ Len(telemetry.event) <= 16) =>
          /\ packet_out[10] = Len(telemetry.event)
          /\ packet_out[10] <= 16
          /\ packet_out[3] = 11 + packet_out[10]
          /\ Len(packet_out) = 3 + packet_out[3] + 2
          /\ SubSeq(packet_out, 11, 10 + packet_out[10]) = telemetry.event
    /\ Len(packet_out) <= PROTOCOL_MAX_PACKET_SIZE

\* The event packet of a record whose tag fills all 16 bytes of the field has
\* been encoded.
C28_Witness ==
    /\ EventEncoded
    /\ Len(telemetry.event) = 16
    /\ Len(packet_out) = 32

\* C29: protocol_verify_packet returns false for every byte sequence that is
\* shorter than 6 bytes, or whose first byte is not 0xAA, or whose last byte is
\* not 0x55, or whose second-to-last byte is not the CRC8 of the bytes between
\* START and the CRC byte; and the call changes nothing but its result.
Malformed(p) ==
    \/ Len(p) < 6
    \/ p[1] # 170
    \/ p[Len(p)] # 85
    \/ p[Len(p) - 1] # crc8_calculate(SubSeq(p, 2, Len(p) - 2))
C29_MalformedRejected ==
    [][verify_ret' # verify_ret =>
          /\ Malformed(packet) => verify_ret' = "false"
          /\ UNCHANGED << codecFrame, telemetry, status, packet_out, packet >>
      ]_vars

\* A frame of full length with both markers in place and one bit of its CRC
\* byte inverted has been refused.
C29_Witness ==
    /\ verify_ret = "false"
    /\ Len(packet) = Len(packet_out)
    /\ Len(packet) >= 6
    /\ packet[1] = 170
    /\ packet[Len(packet)] = 85
    /\ packet[Len(packet) - 1] # packet_out[Len(packet) - 1]
    /\ \A i \in 1..Len(packet) : i # Len(packet) - 1 => packet[i] = packet_out[i]

\* C30: the 16-bit fixed-point CO field of a telemetry or event frame is
\* round(co_ppm * 100), the integer nearest to co_ppm * 100, for every co_ppm of
\* the calibrated range 0 to 200 ppm, and that integer fits 16 bits.
C30_FixedIsNearest ==
    (/\ packet_out # << >>
     /\ packet_out[2] \in {MSG_TYPE_TELEMETRY, MSG_TYPE_EVENT}
     /\ telemetry.co_ppm \in Thousandths(0)..Thousandths(200)) =>
        LET nearest == (telemetry.co_ppm * 100 + Thousandths(1) \div 2)
                            \div Thousandths(1)
        IN  /\ nearest < 65536
            /\ packet_out[8] * 256 + packet_out[9] = nearest

\* C31: a command frame that fails decoding (it does not verify, is not of the
\* command type or does not carry exactly one payload byte) or carries an id
\* other than 0x01 to 0x04 is rejected by parse_command without a change of any
\* shared state: the command queue, the FSM state, the FSM event channel, the
\* ring buffer and everything else stay as they are.
C31_BadCommandRejected ==
    [][(/\ command_data # NoData
        /\ command_data' = NoData
        /\ \/ Len(command_data) # 6
           \/ ~protocol_verify_packet(command_data)
           \/ command_data[2] # 16
           \/ command_data[3] # 1
           \/ command_data[4] \notin 1..4)
          => UNCHANGED << commandQueue, current_state, fsmEventQueue, ringVars,
                          systemFrame, main_pc, main_elapsed, door_sem, door_pc,
                          door_task_elapsed >>
      ]_vars

\* A well-formed command frame with the unknown id 0x05 has been rejected while
\* an accepted command was waiting in the queue.
C31_Witness ==
    /\ command_data = CommandFrame(5)
    /\ ENABLED parse_command
    /\ commandQueue = << "CMD_OPEN_DOOR" >>

\* C32: while the state is Emergency and apply_state_config(EMERGENCY) has made
\* its actuator calls, the door is commanded open (90 degrees): neither the
\* button-driven door task nor an OPEN_DOOR command with its automatic close
\* commands it closed before the FSM leaves Emergency.
C32_DoorOpenInEmergency ==
    (current_state = STATE_EMERGENCY /\ fsm_pc # "actuate") => door_angle = 90

\* C33: while the state is Emergency and apply_state_config(EMERGENCY) has made
\* its actuator calls, the buzzer is active: no command handled by app_main's
\* loop, the Test command included, leaves it switched off.
C33_BuzzerOnInEmergency ==
    (current_state = STATE_EMERGENCY /\ fsm_pc # "actuate") => buzzer_active

Handed == { published[i] : i \in 1..Len(published) } \cup lost
C35_HandedInDequeueOrder ==
    [][\A s \in Handed' \ Handed : \A r \in Handed : r < s]_vars

\* C36: when a loop iteration of agent_task that saw the link connected ends
\* (was_connected becomes true), the ring buffer holds no record.
C36_ConnectedIterationEndsEmpty ==
    [][(agent_pc = "recv" /\ agent_pc' = "poll" /\ was_connected') => count' = 0]_vars

\* C37: ring_buffer_count returns the number of records stored and
\* ring_buffer_is_empty returns true only when none is stored: on the step on
\* which either call of a task gets its answer, with or without the lock, the
\* count answered is count and the answer "empty" is given exactly when count
\* is 0.
C37_AnswersAreTrue ==
    [][\A t \in RingTasks :
          (TaskRead(t) \/ TaskReadUnlocked(t))
              => (/\ current_count' = count
                  /\ ring_ret'[t] = "true" <=> count = 0)
      ]_vars

\* C38: in every record the FSM or the sensor has put on the telemetry channel,
\* alarm_active is true exactly when the record's state is Emergency, and
\* door_open is true exactly when it is Open or Emergency.
C38_FlagsFollowState ==
    \A i \in 1..Len(telemetryQueue) :
        LET telem == telemetryQueue[i]
        IN  /\ telem.alarm_active <=> telem.state = STATE_EMERGENCY
            /\ telem.door_open <=> telem.state \in {STATE_OPEN, STATE_EMERGENCY}

\* A sample the sensor took while the FSM was in Emergency waits on the
\* telemetry channel with both flags set.
C38_Witness ==
    /\ telemetryQueue # << >>
    /\ Head(telemetryQueue).event = "READING"
    /\ Head(telemetryQueue).state = STATE_EMERGENCY
    /\ Head(telemetryQueue).alarm_active
    /\ Head(telemetryQueue).door_open
    /\ current_state = STATE_EMERGENCY

\* C39: the frame an encoder has produced passes protocol_verify_packet, called
\* with the frame and the length the encoder reported: the function is true of
\* every frame encoded, and the call of a receiver that is handed the frame as
\* it was encoded returns true.
C39_EncodedFrameVerifies ==
    [][/\ packet_out' # << >> => protocol_verify_packet(packet_out')
       /\ (verify_ret' # verify_ret /\ packet_out # << >> /\ packet = packet_out)
              => verify_ret' = "true"
      ]_vars

\* The event frame of a record with a 16-byte name has reached the receiver as
\* it was encoded and has been verified.
C39_Witness ==
    /\ packet_out # << >>
    /\ packet_out[2] = MSG_TYPE_EVENT
    /\ Len(telemetry.event) = PROTOCOL_EVENT_NAME_LEN
    /\ packet = packet_out
    /\ verify_ret = "true"

====
